---- MODULE Spec2Model ----
(***************************************************************************)
(* A model of the check-in bot: the conversation handlers of bot/bot.py,   *)
(* the normalizer of bot/llm.py, the state file of bot/state.py and the    *)
(* ledger of track/core.py.                                                *)
(*                                                                         *)
(* Encoding.  A Python string is a sequence of one-character strings, so   *)
(* that strip(), lower() and concatenation are computed.  An Optional      *)
(* value is None (the empty tuple) or Some(v) (a one-element tuple).       *)
(* Times are minutes on one integer time line; the clock only takes whole  *)
(* hours.  Durations are whole minutes.                                    *)
(***************************************************************************)
EXTENDS Integers, Sequences, FiniteSets, TLC

VARIABLES
    config,       \* BotConfig: chat_id, day_start_hour, day_end_hour
    state,        \* BotState, the in-memory ConversationState
    state_file,   \* the content of the state file: None or Some(saved state)
    ledger,       \* the activities table, in insertion order
    next_id,      \* the next autoincrement id of the activities table
    now,          \* the clock, in minutes
    last,         \* the handler run in progress: its input and what it did
    thread,       \* the pending check-in and the clarifications since (history)
    confirmed,    \* the last reply handled as a delete confirmation (history)
    stored,       \* the drafts handle_message has stored in the ledger, each
                  \* with its chat, message id and position (history)
    temp_file,    \* the content of the temporary file next to the state file
    task          \* a computation followed step by step: a call, a save, a
                  \* handler suspended at an await

vars == <<config, state, state_file, ledger, next_id, now, last, thread, confirmed,
          stored, temp_file, task>>

--------------------------------------------------------------------------
(* Bounds of the model *)

\* message ids delivered by the transport are 1..MaxMsgId
MaxMsgId == 2
\* the script adds records with ids up to MaxRecords, and a message is
\* handled only while the ledger holds at most MaxRecords records
MaxRecords == 1
\* the clock runs from hour 0 to hour MaxHour
MaxHour == 1
\* the texts given to extract_json have up to MaxTextLen characters
MaxTextLen == 4

\* on_startup is called at the times 0..MaxClock, in seconds
MaxClock == 7200

--------------------------------------------------------------------------
(* Optional values and strings *)

None == <<>>
Some(v) == <<v>>
IsNone(x) == x = <<>>
Get(x) == x[1]

\* the characters str.strip() removes
Whitespace == {" ", "\n"}

\* str.lower() on one character
LowerChar(c) ==
    CASE c = "Y" -> "y"
      [] c = "E" -> "e"
      [] c = "S" -> "s"
      [] c = "N" -> "n"
      [] c = "O" -> "o"
      [] c = "W" -> "w"
      [] OTHER -> c

\* str.lower()
Lower(s) == [i \in 1..Len(s) |-> LowerChar(s[i])]

RECURSIVE LStrip(_)
LStrip(s) == IF s # <<>> /\ Head(s) \in Whitespace THEN LStrip(Tail(s)) ELSE s

RECURSIVE RStrip(_)
RStrip(s) ==
    IF s # <<>> /\ s[Len(s)] \in Whitespace
    THEN RStrip(SubSeq(s, 1, Len(s) - 1))
    ELSE s

\* str.strip()
Strip(s) == LStrip(RStrip(s))

\* sep.join(parts)
RECURSIVE Join(_, _)
Join(sep, parts) ==
    IF parts = <<>> THEN <<>>
    ELSE IF Len(parts) = 1 THEN parts[1]
    ELSE parts[1] \o sep \o Join(sep, Tail(parts))

DigitChar(d) ==
    CASE d = 0 -> "0" [] d = 1 -> "1" [] d = 2 -> "2" [] d = 3 -> "3"
      [] d = 4 -> "4" [] d = 5 -> "5" [] d = 6 -> "6" [] d = 7 -> "7"
      [] d = 8 -> "8" [] OTHER -> "9"

RECURSIVE NatStr(_)
NatStr(n) == IF n < 10 THEN <<DigitChar(n)>> ELSE NatStr(n \div 10) \o <<DigitChar(n % 10)>>

\* str(n) and f"{n:g}" for a whole number
IntStr(n) == IF n < 0 THEN <<"-">> \o NatStr(0 - n) ELSE NatStr(n)

\* a string literal of the source, kept as one chunk
Lit(text) == <<text>>

--------------------------------------------------------------------------
(* JSON values decoded from the model's answer (json.loads).  Every value   *)
(* carries all fields; only the field its type names is meaningful.         *)

JNull == [t |-> "null", s |-> <<>>, n |-> 0, l |-> <<>>, d |-> <<>>]
JStr(str) == [t |-> "str", s |-> str, n |-> 0, l |-> <<>>, d |-> <<>>]
JNum(num) == [t |-> "num", s |-> <<>>, n |-> num, l |-> <<>>, d |-> <<>>]
JList(items) == [t |-> "list", s |-> <<>>, n |-> 0, l |-> items, d |-> <<>>]
JDict(fields) == [t |-> "dict", s |-> <<>>, n |-> 0, l |-> <<>>, d |-> fields]

\* dict.get(key): None for a missing key
DictGet(p, key) == IF key \in DOMAIN p.d THEN p.d[key] ELSE JNull

\* Python truthiness, as used by `a or b`
Truthy(v) ==
    CASE v.t = "null" -> FALSE
      [] v.t = "str" -> v.s # <<>>
      [] v.t = "num" -> v.n # 0
      [] v.t = "list" -> v.l # <<>>
      [] OTHER -> DOMAIN v.d # {}

\* a or b
PyOr(a, b) == IF Truthy(a) THEN a ELSE b

\* str(v)
PyStr(v) ==
    CASE v.t = "str" -> v.s
      [] v.t = "num" -> IntStr(v.n)
      [] v.t = "null" -> <<"N", "o", "n", "e">>
      [] OTHER -> Lit("<object>")

Digits == {"0", "1", "2", "3", "4", "5", "6", "7", "8", "9"}

DigitVal(c) ==
    CASE c = "0" -> 0 [] c = "1" -> 1 [] c = "2" -> 2 [] c = "3" -> 3
      [] c = "4" -> 4 [] c = "5" -> 5 [] c = "6" -> 6 [] c = "7" -> 7
      [] c = "8" -> 8 [] OTHER -> 9

RECURSIVE DigitsVal(_)
DigitsVal(s) ==
    IF s = <<>> THEN 0
    ELSE 10 * DigitsVal(SubSeq(s, 1, Len(s) - 1)) + DigitVal(s[Len(s)])

\* float(s) and int(s) on a string: surrounding whitespace is allowed, the
\* rest must be digits (the model has no signs, fractions or exponents);
\* None stands for ValueError
ParseNumber(s) ==
    LET body == Strip(s)
    IN IF body # <<>> /\ \A i \in 1..Len(body) : body[i] \in Digits
       THEN Some(DigitsVal(body))
       ELSE None

\* float("nan"), also what json.loads makes of NaN: the float that is neither
\* <= 0 nor > 0.  It is coded as an integer no input of the model carries
NaN == -1000

\* float(s): as ParseNumber, and "nan" in any case is accepted
ParseFloat(s) ==
    IF Lower(Strip(s)) = <<"n", "a", "n">> THEN Some(NaN) ELSE ParseNumber(s)

\* s.split(sep) for a one-character separator
RECURSIVE Split(_, _)
Split(s, sep) ==
    IF \A i \in 1..Len(s) : s[i] # sep THEN <<s>>
    ELSE LET k == CHOOSE i \in 1..Len(s) :
                      s[i] = sep /\ \A j \in 1..(i - 1) : s[j] # sep
         IN <<SubSeq(s, 1, k - 1)>> \o Split(SubSeq(s, k + 1, Len(s)), sep)

\* StripNonEmpty that drops the first item and keeps the blank ones
StripNonEmpty_rest(items) == [i \in 1..(Len(items) - 1) |-> Strip(items[i + 1])]

\* [f(x).strip() for x in items if f(x).strip()]
RECURSIVE StripNonEmpty(_)
StripNonEmpty(items) ==
    IF items = <<>> THEN <<>>
    ELSE LET x == Strip(Head(items))
         IN (IF x # <<>> THEN <<x>> ELSE <<>>) \o StripNonEmpty(Tail(items))

--------------------------------------------------------------------------
(* bot/llm.py *)

\* text.find(c): the first index of c, 0 when there is none (-1 in Python)
Find(text, c) ==
    IF \E i \in 1..Len(text) : text[i] = c
    THEN CHOOSE i \in 1..Len(text) : text[i] = c /\ \A j \in 1..(i - 1) : text[j] # c
    ELSE 0

\* RFind that returns the first index
RFind_first(text, c) ==
    IF \E i \in 1..Len(text) : text[i] = c
    THEN CHOOSE i \in 1..Len(text) : text[i] = c /\ \A j \in 1..(i - 1) : text[j] # c
    ELSE 0

\* text.rfind(c): the last index of c, 0 when there is none
RFind(text, c) ==
    IF \E i \in 1..Len(text) : text[i] = c
    THEN CHOOSE i \in 1..Len(text) : text[i] = c /\ \A j \in (i + 1)..Len(text) : text[j] # c
    ELSE 0

\* extract_json: Some(span), or None for ValueError
extract_json(text) ==
    LET brace_index == Find(text, "{")
        bracket_index == Find(text, "[")
    IN IF brace_index = 0 /\ bracket_index = 0 THEN None
       ELSE IF bracket_index # 0 /\ (brace_index = 0 \/ bracket_index < brace_index)
       THEN (IF RFind(text, "]") = 0 \/ RFind(text, "]") <= bracket_index THEN None
             ELSE Some(SubSeq(text, bracket_index, RFind(text, "]"))))
       ELSE IF brace_index = 0 \/ RFind(text, "}") = 0 \/ RFind(text, "}") <= brace_index
       THEN None
       ELSE Some(SubSeq(text, brace_index, RFind(text, "}")))

\* the ActivityData dataclass: an object with exactly these attributes
ActivityData(description, duration_minutes, quadrant, tags, when) ==
    [description |-> description, duration_minutes |-> duration_minutes,
     quadrant |-> quadrant, tags |-> tags, when |-> when]

\* obj.name raises AttributeError unless the object has the attribute
HasAttr(obj, name) == name \in DOMAIN obj

\* normalize_activity: Some(draft), or None for ValueError
normalize_activity(payload) ==
    LET description == PyOr(DictGet(payload, "description"), DictGet(payload, "desc"))
        duration0 == PyOr(DictGet(payload, "duration_minutes"), DictGet(payload, "duration"))
        quadrant0 == DictGet(payload, "quadrant")
        tags == DictGet(payload, "tags")
        when == DictGet(payload, "when")
        duration == IF duration0.t = "str" THEN ParseFloat(duration0.s)
                    ELSE IF duration0.t = "num" THEN Some(duration0.n)
                    ELSE None
        quadrant == IF quadrant0.t = "str" THEN ParseNumber(quadrant0.s)
                    ELSE IF quadrant0.t = "num" THEN Some(quadrant0.n)
                    ELSE None
        normalized_tags ==
            IF tags.t = "null" THEN <<>>
            ELSE IF tags.t = "list"
            THEN StripNonEmpty([i \in 1..Len(tags.l) |-> PyStr(tags.l[i])])
            ELSE StripNonEmpty(Split(PyStr(tags), ","))
    IN IF description.t # "str" \/ Strip(description.s) = <<>> THEN None
       ELSE IF IsNone(duration) \/ (Get(duration) # NaN /\ Get(duration) <= 0) THEN None
       ELSE IF IsNone(quadrant) \/ Get(quadrant) \notin {1, 2, 3, 4} THEN None
       ELSE Some(ActivityData(
                Strip(description.s),
                Get(duration),
                Get(quadrant),
                IF normalized_tags = <<>> THEN None ELSE Some(normalized_tags),
                IF when.t = "str" /\ Strip(when.s) # <<>> THEN Some(when.s) ELSE None))

NotEventsDefault == Lit("Not a check-in.")
UnclearEventDefault ==
    Lit("Please clarify what you did, how long it took, and the quadrant.")

Raised(exc, msg) == [tag |-> exc, drafts |-> <<>>, msg |-> msg]
Returned(drafts) == [tag |-> "ok", drafts |-> drafts, msg |-> <<>>]

\* SignalMessage that passes a blank message on
SignalMessage_blank(payload, default) ==
    IF DictGet(payload, "message").t = "str" THEN DictGet(payload, "message").s
    ELSE default

\* the message of a control signal, or the default text
SignalMessage(payload, default) ==
    LET message == DictGet(payload, "message")
    IN IF message.t = "str" /\ Strip(message.s) # <<>> THEN message.s ELSE default

\* NormalizeAll that stops after the first item
NormalizeAll_first(items) ==
    IF items = <<>> THEN Some(<<>>)
    ELSE IF Head(items).t # "dict" \/ IsNone(normalize_activity(Head(items))) THEN None
    ELSE Some(<<Get(normalize_activity(Head(items)))>>)

RECURSIVE NormalizeAll(_)
\* the loop of normalize_activities: None as soon as one item is rejected
NormalizeAll(items) ==
    IF items = <<>> THEN Some(<<>>)
    ELSE IF Head(items).t # "dict" THEN None
    ELSE LET first == normalize_activity(Head(items))
             rest == NormalizeAll(Tail(items))
         IN IF IsNone(first) \/ IsNone(rest) THEN None
            ELSE Some(<<Get(first)>> \o Get(rest))

normalize_activities(payload) ==
    LET error == DictGet(payload, "error")
        payloads == IF payload.t = "dict" THEN <<payload>> ELSE payload.l
        activities == NormalizeAll(payloads)
    IN IF payload.t = "dict" /\ error.t = "str" /\ error.s = Lit("notEvents")
       THEN Raised("NotEventsError", SignalMessage(payload, NotEventsDefault))
       ELSE IF payload.t = "dict" /\ error.t = "str" /\ error.s = Lit("unclearEvent")
       THEN Raised("UnclearEventError", SignalMessage(payload, UnclearEventDefault))
       ELSE IF payload.t \notin {"dict", "list"} THEN Raised("ValueError", <<>>)
       ELSE IF IsNone(activities) \/ Get(activities) = <<>> THEN Raised("ValueError", <<>>)
       ELSE Returned(Get(activities))

\* parse_activities_from_text on one answer of the model: the call may raise
\* (network), the text may hold no JSON span (extract_json), the span may not
\* decode (json.loads), or the decoded payload is normalized
parse_activities_from_text(answer) ==
    IF answer.kind # "json" THEN Raised("Exception", <<>>)
    ELSE normalize_activities(answer.payload)

--------------------------------------------------------------------------
(* track/core.py and track/__init__.py: the ledger *)

\* the names `import track` binds: those track/__init__.py imports from .core
track_names ==
    {"Activity", "QUADRANTS", "add_activity", "fetch_activities", "init_db",
     "list_activities", "remove_activity", "search_activities"}

\* track.<name> raises AttributeError unless the package binds the name
TrackHas(name) == name \in track_names

\* the keys of QUADRANTS
QUADRANTS == {1, 2, 3, 4}

\* the parameters of core.add_activity: a call with another number of
\* positional arguments raises TypeError
add_activity_params == <<"when", "duration", "quadrant", "desc", "tags">>

MinutesPerDay == 24 * 60

\* parse_activity_timestamp: Some(timestamp), or None for ValueError.  The
\* time line starts at 1970-01-01 00:00; the strings below are the ones the
\* model's drafts carry, one per accepted format
parse_activity_timestamp(when, clock) ==
    IF IsNone(when) \/ Get(when) = <<>> THEN Some(clock)
    ELSE IF Get(when) = Lit("1970-01-01T00:30:00") THEN Some(30)
    ELSE IF Get(when) = Lit("1970-01-01 00:45") THEN Some(45)
    ELSE IF Get(when) = Lit("1970-01-01") THEN Some(0)
    ELSE IF Get(when) = Lit("00:30") THEN Some((clock \div MinutesPerDay) * MinutesPerDay + 30)
    ELSE None

\* resolve_activity_timestamp that takes the time of the call for "now"
resolve_activity_timestamp_at_call(when, duration, clock) ==
    IF IsNone(when) \/ Get(when) = <<>> \/ Lower(Strip(Get(when))) = <<"n", "o", "w">>
    THEN Some(clock)
    ELSE parse_activity_timestamp(when, clock)

resolve_activity_timestamp(when, duration, clock) ==
    IF IsNone(when) \/ Get(when) = <<>> \/ Lower(Strip(Get(when))) = <<"n", "o", "w">>
    THEN (IF duration = NaN THEN None ELSE Some(clock - duration))
    ELSE parse_activity_timestamp(when, clock)

\* the Activity model: an object with exactly these columns
Activity(id, entry_timestamp, activity_timestamp, duration_minutes, quadrant, description, tags) ==
    [id |-> id, entry_timestamp |-> entry_timestamp,
     activity_timestamp |-> activity_timestamp,
     duration_minutes |-> duration_minutes, quadrant |-> quadrant,
     description |-> description, tags |-> tags]

\* the ledger with its id counter
Db(records, counter) == [records |-> records, next_id |-> counter]

\* core.add_activity(*args) on database db; io_ok: the store works.
\* ok = FALSE stands for an exception, with the database as it was
add_activity(args, db, clock, io_ok) ==
    LET when == args[1]
        duration == args[2]
        quadrant == args[3]
        desc == args[4]
        tags == args[5]
        activity_ts == resolve_activity_timestamp(when, duration, clock)
        failed == [ok |-> FALSE, ts |-> 0, db |-> db]
    IN IF Len(args) # Len(add_activity_params) THEN failed
       ELSE IF quadrant \notin QUADRANTS THEN failed
       ELSE IF IsNone(activity_ts) THEN failed
       ELSE IF ~io_ok THEN failed
       ELSE [ok |-> TRUE,
             ts |-> Get(activity_ts),
             db |-> Db(Append(db.records,
                              Activity(db.next_id, clock, Get(activity_ts),
                                       duration, quadrant, desc, tags)),
                       db.next_id + 1)]

\* the records of the ledger with the given id (at most one)
WithId(records, activity_id) ==
    {i \in 1..Len(records) : records[i].id = activity_id}

\* core.fetch_activity: None or Some(record)
fetch_activity(records, activity_id) ==
    IF WithId(records, activity_id) = {} THEN None
    ELSE Some(records[CHOOSE i \in WithId(records, activity_id) : TRUE])

RECURSIVE Without(_, _)
Without(records, activity_id) ==
    IF records = <<>> THEN <<>>
    ELSE (IF Head(records).id = activity_id THEN <<>> ELSE <<Head(records)>>)
         \o Without(Tail(records), activity_id)

\* core.delete_activity: the return value and the records left
delete_activity(records, activity_id) ==
    IF WithId(records, activity_id) = {}
    THEN [deleted |-> FALSE, records |-> records]
    ELSE [deleted |-> TRUE, records |-> Without(records, activity_id)]

--------------------------------------------------------------------------
(* bot/state.py *)

BotState(chat_id, last_prompt_at, last_message_id, pending_checkin, pending_delete_id) ==
    [chat_id |-> chat_id, last_prompt_at |-> last_prompt_at,
     last_message_id |-> last_message_id, pending_checkin |-> pending_checkin,
     pending_delete_id |-> pending_delete_id]

\* BotState(): every field None
DefaultState == BotState(None, None, None, None, None)

\* datetime.isoformat, as the minute count in decimal
isoformat(t) == IntStr(t)

\* datetime.fromisoformat: Some(time), or None for ValueError
fromisoformat(str) == ParseNumber(str)


\* the JSON object save_state writes; JOptNum is an int field, null for None
StatePayload(st) ==
    LET JOptNum(x) == IF IsNone(x) THEN JNull ELSE JNum(Get(x))
    IN
    JDict([chat_id |-> JOptNum(st.chat_id),
           last_prompt_at |-> IF IsNone(st.last_prompt_at) THEN JNull
                              ELSE JStr(isoformat(Get(st.last_prompt_at))),
           last_message_id |-> JOptNum(st.last_message_id),
           pending_checkin |-> IF IsNone(st.pending_checkin) THEN JNull
                               ELSE JStr(Get(st.pending_checkin)),
           pending_delete_id |-> JOptNum(st.pending_delete_id)])

\* save_state: the file after the temp file replaced it
save_state(st) == Some(StatePayload(st))

\* a text json.loads rejects with JSONDecodeError
JInvalid == [t |-> "invalid", s |-> <<>>, n |-> 0, l |-> <<>>, d |-> <<>>]

\* `x = raw.get(key); if not isinstance(x, int): x = None`
IntField(raw, key) ==
    IF DictGet(raw, key).t = "num" THEN Some(DictGet(raw, key).n) ELSE None

\* load_state; the file is absent (None) or holds a text: one that does not
\* decode, or a JSON value.  raw.get on a value that is not an object is an
\* AttributeError, which load_state does not catch
load_state(file) ==
    IF IsNone(file) THEN DefaultState
    ELSE LET raw == Get(file)
             prompt == DictGet(raw, "last_prompt_at")
             pending == DictGet(raw, "pending_checkin")
         IN IF raw.t = "invalid" THEN DefaultState
            ELSE IF raw.t # "dict" THEN [raised |-> "AttributeError"]
            ELSE BotState(
                     IntField(raw, "chat_id"),
                     IF prompt.t = "str" THEN fromisoformat(prompt.s) ELSE None,
                     IntField(raw, "last_message_id"),
                     IF pending.t # "str" \/ Strip(pending.s) = <<>>
                     THEN None ELSE Some(pending.s),
                     IntField(raw, "pending_delete_id"))

--------------------------------------------------------------------------
(* bot/bot.py: formatting *)

TwoDigits(n) == IF n < 10 THEN <<"0">> \o NatStr(n) ELSE NatStr(n)

\* strftime("%Y-%m-%d %H:%M") for a time in December 1969 or January 1970
strftime(t) ==
    LET day == t \div MinutesPerDay
        minute == t % MinutesPerDay
    IN (IF day < 0 THEN Lit("1969-12-") \o TwoDigits(32 + day)
        ELSE Lit("1970-01-") \o TwoDigits(day + 1))
       \o <<" ">> \o TwoDigits(minute \div 60) \o <<":">> \o TwoDigits(minute % 60)

\* render_activity_summary(activity, activity_ts), with activity.why read
render_activity_summary(activity, activity_ts) ==
    LET tags == IF ~IsNone(activity.tags)
                THEN Join(<<",", " ">>, Get(activity.tags)) ELSE Lit("none")
        why == IF activity.why # <<>>
               THEN Lit(" | why: ") \o activity.why ELSE <<>>
    IN Lit("Logged: Q") \o IntStr(activity.quadrant) \o Lit(" | ")
       \o IntStr(activity.duration_minutes) \o Lit("m | ")
       \o activity.description \o why \o Lit(" | tags: ") \o tags
       \o Lit(" | when: ") \o strftime(activity_ts)

\* format_delete_prompt(activity), with activity.why read
format_delete_prompt(activity) ==
    LET why == IF activity.why # <<>>
               THEN Lit(" | why: ") \o activity.why ELSE <<>>
    IN Lit("Are you sure you want to delete event ") \o IntStr(activity.id)
       \o Lit(" - ") \o strftime(activity.activity_timestamp) \o Lit(", ")
       \o IntStr(activity.duration_minutes) \o Lit("m, ")
       \o activity.description \o why \o Lit("?")

\* one line of format_activity_list, with activity.why read
format_activity_line(activity) ==
    LET tags == IF ~IsNone(activity.tags) /\ Get(activity.tags) # <<>>
                THEN Lit(" | tags: ") \o Get(activity.tags) ELSE <<>>
        why == IF activity.why # <<>>
               THEN Lit(" | why: ") \o activity.why ELSE <<>>
    IN Lit("- ") \o IntStr(activity.id) \o Lit(" | ")
       \o strftime(activity.activity_timestamp) \o Lit(" | ")
       \o IntStr(activity.duration_minutes) \o Lit("m | Q")
       \o IntStr(activity.quadrant) \o Lit(" | ") \o activity.description
       \o why \o tags

\* the texts the handlers send
MismatchNotice == Lit("This bot is configured for a different chat.")
StartNotice ==
    Lit("Check-ins are active. I'll ping you hourly during daytime. You can also send /checkin to prompt now.")
PromptSent == Lit("Prompt sent.")
NoChatNotice == Lit("No chat is registered yet. Send /start first.")
ListUsage == Lit("Usage: /list [number_of_events]")
ListFailed == Lit("Listing failed. Check logs for details.")
NoActivities == Lit("No activities found.")
DeleteUsage == Lit("Usage: /delete <event_id>")
LoadFailed == Lit("Couldn't load that event. Check logs for details.")
DeleteFailed == Lit("Delete failed. Check logs for details.")
DeleteCancelled == Lit("Delete cancelled.")
ParseFailed ==
    Lit("I couldn't parse that. Please include what you did, how long, and a quadrant (Q1-4).")
LoggingFailed == Lit("I parsed it, but logging failed. Check logs for details.")
NoActivityWithId(activity_id) ==
    Lit("No activity found with ID ") \o IntStr(activity_id) \o Lit(".")
EventNotFound(activity_id) ==
    Lit("Event ID ") \o IntStr(activity_id) \o Lit(" was not found.")
DeletedEvent(activity_id) ==
    Lit("Deleted event ID ") \o IntStr(activity_id) \o Lit(".")
PleaseReply(activity) == Lit("Please reply yes or no. ") \o format_delete_prompt(activity)
CheckinPrompt ==
    Lit("Hourly check-in: what did you do in the last hour? Include duration, quadrant (Q1-4), tags, and why if you can.")

\* one message handed to the transport
Msg(to, text) == [to |-> to, text |-> text]

--------------------------------------------------------------------------
(* bot/bot.py: handle_message *)

\* what one handler run leaves behind: the state object, the state file, the
\* ledger, the messages sent, the texts given to the model, whether an
\* exception left the handler, and the branch that ended the run
Res(st, file, db, replies, calls, raised, branch) ==
    [state |-> st, file |-> file, db |-> db, replies |-> replies,
     calls |-> calls, raised |-> raised, branch |-> branch]

\* `if config.chat_id and chat_id != config.chat_id`
OriginRejected(cfg, chat) ==
    ~IsNone(cfg.chat_id) /\ Get(cfg.chat_id) # 0 /\ chat # Get(cfg.chat_id)

\* IsRedelivery with `<` for `<=`: the recorded id itself is accepted again
IsRedelivery_strict(st, message_id) ==
    ~IsNone(st.last_message_id) /\ message_id < Get(st.last_message_id)

\* IsRedelivery without the test: every id is accepted
IsRedelivery_never(st, message_id) == FALSE

\* `if state.last_message_id is not None and message_id <= state.last_message_id`
IsRedelivery(st, message_id) ==
    ~IsNone(st.last_message_id) /\ message_id <= Get(st.last_message_id)

\* AwaitingDelete with the clarification branch tested first
AwaitingDelete_second(st) ==
    ~IsNone(st.pending_delete_id) /\ IsNone(st.pending_checkin)

\* `if state.pending_delete_id is not None`
AwaitingDelete(st) == ~IsNone(st.pending_delete_id)

\* `response = text.strip().lower()`
confirmation_response(text) == Lower(Strip(text))

\* on_delete_cancelled that keeps the pending id
on_delete_cancelled_keeping(st) == st

\* the `n` / `no` reply: `state.pending_delete_id = None`
on_delete_cancelled(st) == [st EXCEPT !.pending_delete_id = None]

\* on_ledger_failed that clears the pending id
on_ledger_failed_clearing(st) == [st EXCEPT !.pending_delete_id = None]

\* the except blocks of the delete confirmation: reply and return, the state
\* is not assigned
on_ledger_failed(st) == st

\* the delete-confirmation branch; io = k: the k-th ledger call fails
delete_confirmation(inp, st, file, db) ==
    LET response == confirmation_response(inp.text)
        activity_id == Get(st.pending_delete_id)
        cleared == [st EXCEPT !.pending_delete_id = None]
        cancelled == on_delete_cancelled(st)
        failed == on_ledger_failed(st)
        kept(x) == IF x = st THEN file ELSE save_state(x)
        fetched == fetch_activity(db.records, activity_id)
        removal == delete_activity(db.records, activity_id)
        reply(text) == <<Msg(inp.chat, text)>>
    IN IF response \in {<<"y">>, <<"y", "e", "s">>}
       THEN IF ~TrackHas("fetch_activity") \/ inp.io = 1
            THEN Res(failed, kept(failed), db, reply(LoadFailed), <<>>, FALSE,
                     "load_failed")
            ELSE IF ~IsNone(fetched) /\ ~HasAttr(Get(fetched), "why")
            THEN Res(st, file, db, <<>>, <<>>, TRUE, "raised")
            ELSE IF ~TrackHas("delete_activity") \/ inp.io = 2
            THEN Res(failed, kept(failed), db, reply(DeleteFailed), <<>>, FALSE,
                     "delete_failed")
            ELSE IF removal.deleted
            THEN Res(cleared, save_state(cleared), Db(removal.records, db.next_id),
                     reply(DeletedEvent(activity_id)), <<>>, FALSE, "deleted")
            ELSE Res(cleared, save_state(cleared), db,
                     reply(EventNotFound(activity_id)), <<>>, FALSE, "not_found")
       ELSE IF response \in {<<"n">>, <<"n", "o">>}
       THEN Res(cancelled, save_state(cancelled), db, reply(DeleteCancelled), <<>>,
                FALSE, "cancelled")
       ELSE IF ~TrackHas("fetch_activity") \/ inp.io = 1
       THEN Res(failed, kept(failed), db, reply(LoadFailed), <<>>, FALSE, "load_failed")
       ELSE IF IsNone(fetched)
       THEN Res(cleared, save_state(cleared), db, reply(EventNotFound(activity_id)),
                <<>>, FALSE, "not_found")
       ELSE IF ~HasAttr(Get(fetched), "why")
       THEN Res(st, file, db, <<>>, <<>>, TRUE, "raised")
       ELSE Res(st, file, db, reply(PleaseReply(Get(fetched))), <<>>, FALSE, "reprompt")

\* `if pending_checkin:`
HasPending(pending_checkin) == ~IsNone(pending_checkin) /\ Get(pending_checkin) # <<>>

\* compose_text that sends the clarification without the labels
compose_text_unlabelled(pending_checkin, text) ==
    IF HasPending(pending_checkin)
    THEN Get(pending_checkin) \o <<"\n">> \o text
    ELSE text

\* the text composed for the model, before the timestamp note
compose_text(pending_checkin, text) ==
    IF HasPending(pending_checkin)
    THEN Lit("Original check-in: ") \o Get(pending_checkin)
         \o <<"\n">> \o Lit("Clarification: ") \o text
    ELSE text

\* llm_text
llm_text(text, clock) ==
    text \o <<"\n", "\n">>
    \o Lit("[User message timestamp (reference only, use literal 'now' if no other time is specified): ")
    \o strftime(clock) \o Lit("]")

\* on_not_events that also drops the pending clarification
on_not_events_clearing(st, message_id) ==
    [st EXCEPT !.last_message_id = Some(message_id), !.pending_checkin = None]

\* on_not_events that writes the message id to the wrong field
on_not_events_slip(st, message_id) ==
    [st EXCEPT !.pending_delete_id = Some(message_id)]

\* the state after `except NotEventsError`
on_not_events(st, message_id) == [st EXCEPT !.last_message_id = Some(message_id)]

\* next_pending that keeps only the latest text
next_pending_latest(pending_checkin, text) == text

\* the pending text after `except UnclearEventError`
next_pending(pending_checkin, text) ==
    IF HasPending(pending_checkin)
    THEN Get(pending_checkin) \o <<"\n">> \o Lit("Clarification: ") \o text
    ELSE text

\* the state after `except UnclearEventError`
on_unclear(st, pending_checkin, text, message_id) ==
    [st EXCEPT !.pending_checkin = Some(next_pending(pending_checkin, text)),
               !.last_message_id = Some(message_id)]

\* on_parse_failed that marks the message as processed
on_parse_failed_advancing(st, message_id) ==
    [st EXCEPT !.last_message_id = Some(message_id)]

\* on_logging_failed that marks the message as processed
on_logging_failed_advancing(st, message_id) ==
    [st EXCEPT !.last_message_id = Some(message_id)]

\* the state after `except Exception` around the model call: as it was
on_parse_failed(st, message_id) == st

\* the state after `except Exception` around track.add_activity: as it was
on_logging_failed(st, message_id) == st

\* the state after every draft was logged
on_logged(st, message_id) ==
    [st EXCEPT !.last_prompt_at = None,
               !.last_message_id = Some(message_id),
               !.pending_checkin = None]

\* the arguments handle_message gives track.add_activity for one draft
add_arguments(activity) ==
    <<activity.when, activity.duration_minutes, activity.quadrant,
      activity.description,
      IF ~IsNone(activity.tags) THEN Some(Join(<<",">>, Get(activity.tags))) ELSE None,
      activity.why>>

RECURSIVE log_activities_storing(_, _, _, _, _, _)
\* log_activities that calls add_activity with its five parameters, reads no
\* `why`, and answers with the descriptions
log_activities_storing(activities, k, db, summaries, clock, io) ==
    IF k > Len(activities)
    THEN [end |-> "done", db |-> db, summaries |-> summaries]
    ELSE LET activity == activities[k]
             added == add_activity(
                          <<activity.when, activity.duration_minutes, activity.quadrant,
                            activity.description,
                            IF ~IsNone(activity.tags)
                            THEN Some(Join(<<",">>, Get(activity.tags))) ELSE None>>,
                          db, clock, io # k)
         IN IF ~added.ok
            THEN [end |-> "failed", db |-> db, summaries |-> summaries]
            ELSE log_activities_storing(
                     activities, k + 1, added.db,
                     Append(summaries, activity.description), clock, io)

RECURSIVE log_activities(_, _, _, _, _, _)
\* the loop over the drafts from the k-th one on: how it ended ("done", or
\* "failed": an exception inside the try), the ledger and the summaries so
\* far; io = k: the store fails in the k-th add
log_activities(activities, k, db, summaries, clock, io) ==
    IF k > Len(activities)
    THEN [end |-> "done", db |-> db, summaries |-> summaries]
    ELSE LET activity == activities[k]
             added == add_activity(add_arguments(activity), db, clock, io # k)
         IN IF ~TrackHas("add_activity") \/ ~HasAttr(activity, "why")
            THEN [end |-> "failed", db |-> db, summaries |-> summaries]
            ELSE IF ~added.ok
            THEN [end |-> "failed", db |-> db, summaries |-> summaries]
            ELSE log_activities(
                     activities, k + 1, added.db,
                     Append(summaries, render_activity_summary(activity, added.ts)),
                     clock, io)

\* the check-in branch: model call, then the ledger
checkin(inp, st, file, db, clock) ==
    LET pending_checkin == st.pending_checkin
        sent == llm_text(compose_text(pending_checkin, inp.text), clock)
        parsed == parse_activities_from_text(inp.answer)
        reply(text) == <<Msg(inp.chat, text)>>
        ignored == on_not_events(st, inp.message_id)
        unclear == on_unclear(st, pending_checkin, inp.text, inp.message_id)
        logged == log_activities(parsed.drafts, 1, db, <<>>, clock, inp.io)
        done == on_logged(st, inp.message_id)
    IN CASE parsed.tag = "NotEventsError" ->
                Res(ignored, save_state(ignored), db, reply(parsed.msg), <<sent>>,
                    FALSE, "not_events")
         [] parsed.tag = "UnclearEventError" ->
                Res(unclear, save_state(unclear), db, reply(parsed.msg), <<sent>>,
                    FALSE, "unclear")
         [] parsed.tag \notin {"NotEventsError", "UnclearEventError", "ok"} ->
                Res(on_parse_failed(st, inp.message_id), file, db,
                    reply(ParseFailed), <<sent>>, FALSE, "parse_failed")
         [] OTHER ->
                IF logged.end = "failed"
                THEN Res(on_logging_failed(st, inp.message_id), file, logged.db,
                         reply(LoggingFailed), <<sent>>, FALSE, "logging_failed")
                ELSE Res(done, save_state(done), logged.db,
                         reply(Join(<<"\n">>, logged.summaries)), <<sent>>,
                         FALSE, "logged")

\* handle_message for an update that carries a text and a chat
handle_message(inp, cfg, st, file, db, clock) ==
    IF OriginRejected(cfg, inp.chat)
    THEN Res(st, file, db, <<>>, <<>>, FALSE, "wrong_chat")
    ELSE IF IsRedelivery(st, inp.message_id)
    THEN Res(st, file, db, <<>>, <<>>, FALSE, "redelivery")
    ELSE IF AwaitingDelete(st)
    THEN delete_confirmation(inp, st, file, db)
    ELSE checkin(inp, st, file, db, clock)

--------------------------------------------------------------------------
(* time_utils.py and bot/bot.py: the scheduler and the commands *)

\* is_daytime with the end hour inside the window
is_daytime_inclusive(hour, start_hour, end_hour) ==
    IF start_hour = end_hour THEN TRUE
    ELSE IF start_hour < end_hour THEN start_hour <= hour /\ hour <= end_hour
    ELSE hour >= start_hour \/ hour <= end_hour

\* is_daytime, on the hour of the clock
is_daytime(hour, start_hour, end_hour) ==
    IF start_hour = end_hour THEN TRUE
    ELSE IF start_hour < end_hour THEN start_hour <= hour /\ hour < end_hour
    ELSE hour >= start_hour \/ hour < end_hour

\* HOUR_SECONDS
HOUR_SECONDS == 3600

\* seconds_until_next_hour that rounds the current time down to its hour
seconds_until_next_hour_this_hour(t) ==
    IF (t \div 3600) * 3600 - t > 0 THEN (t \div 3600) * 3600 - t ELSE 0

\* seconds_until_next_hour, on a time in whole seconds: one hour is added
\* and minute and second are set to zero
seconds_until_next_hour(t) ==
    LET next_hour == ((t + 3600) \div 3600) * 3600
    IN IF next_hour - t > 0 THEN next_hour - t ELSE 0

\* datetime.hour
HourOf(t) == (t % MinutesPerDay) \div 60

\* truthiness of an Optional[int]
IntTruthy(x) == ~IsNone(x) /\ Get(x) # 0

\* send_checkin
send_checkin(cfg, st, file, db, clock, force) ==
    LET chat_id == IF IntTruthy(cfg.chat_id) THEN cfg.chat_id ELSE st.chat_id
        prompted == [st EXCEPT !.last_prompt_at = Some(clock)]
    IN IF ~force /\ ~is_daytime(HourOf(clock), cfg.day_start_hour, cfg.day_end_hour)
       THEN Res(st, file, db, <<>>, <<>>, FALSE, "night")
       ELSE IF ~IntTruthy(chat_id)
       THEN Res(st, file, db, <<>>, <<>>, FALSE, "no_chat")
       ELSE Res(prompted, save_state(prompted), db,
                <<Msg(Get(chat_id), CheckinPrompt)>>, <<>>, FALSE, "prompted")

\* `if not config.chat_id and state.chat_id is None: state.chat_id = chat_id`
\* followed by save_state: the state and the file
register_if_unset(cfg, st, file, chat) ==
    IF ~IntTruthy(cfg.chat_id) /\ IsNone(st.chat_id)
    THEN [state |-> [st EXCEPT !.chat_id = Some(chat)],
          file |-> save_state([st EXCEPT !.chat_id = Some(chat)])]
    ELSE [state |-> st, file |-> file]

\* handle_start
handle_start(inp, cfg, st, file, db) ==
    LET registered == [st EXCEPT !.chat_id = Some(inp.chat)]
    IN IF OriginRejected(cfg, inp.chat)
       THEN Res(st, file, db, <<Msg(inp.chat, MismatchNotice)>>, <<>>, FALSE, "wrong_chat")
       ELSE Res(registered, save_state(registered), db,
                <<Msg(inp.chat, StartNotice)>>, <<>>, FALSE, "registered")

\* handle_checkin_command
handle_checkin_command(inp, cfg, st, file, db, clock) ==
    LET reg == register_if_unset(cfg, st, file, inp.chat)
        sent == send_checkin(cfg, reg.state, reg.file, db, clock, TRUE)
    IN Res(sent.state, sent.file, db,
           sent.replies \o <<Msg(inp.chat, IF sent.branch = "prompted"
                                           THEN PromptSent ELSE NoChatNotice)>>,
           <<>>, FALSE, sent.branch)

RECURSIVE SortedByEvent(_)
\* ORDER BY activity_timestamp DESC (the first inserted of equal ones first)
SortedByEvent(records) ==
    IF records = <<>> THEN <<>>
    ELSE LET top == CHOOSE i \in 1..Len(records) :
                        /\ \A j \in 1..Len(records) :
                               records[j].activity_timestamp <= records[i].activity_timestamp
                        /\ \A j \in 1..(i - 1) :
                               records[j].activity_timestamp < records[i].activity_timestamp
         IN <<records[top]>>
            \o SortedByEvent(SubSeq(records, 1, top - 1) \o SubSeq(records, top + 1, Len(records)))

\* core.fetch_activities(limit, "event")
fetch_activities(records, limit) ==
    LET sorted == SortedByEvent(records)
    IN SubSeq(sorted, 1, IF limit < Len(sorted) THEN limit ELSE Len(sorted))

\* max(1, min(limit, 50))
ClampLimit(limit) == IF limit < 1 THEN 1 ELSE IF limit > 50 THEN 50 ELSE limit

\* handle_list_command; arg: None or Some(first argument); io = 1: the
\* store fails
handle_list_command(inp, cfg, st, file, db) ==
    LET reg == register_if_unset(cfg, st, file, inp.chat)
        parsed == IF IsNone(inp.arg) THEN Some(10) ELSE ParseNumber(Get(inp.arg))
        activities == fetch_activities(db.records, ClampLimit(Get(parsed)))
        reply(text) == <<Msg(inp.chat, text)>>
    IN IF OriginRejected(cfg, inp.chat)
       THEN Res(st, file, db, reply(MismatchNotice), <<>>, FALSE, "wrong_chat")
       ELSE IF IsNone(parsed)
       THEN Res(reg.state, reg.file, db, reply(ListUsage), <<>>, FALSE, "usage")
       ELSE IF ~TrackHas("fetch_activities") \/ inp.io = 1
       THEN Res(reg.state, reg.file, db, reply(ListFailed), <<>>, FALSE, "list_failed")
       ELSE IF activities = <<>>
       THEN Res(reg.state, reg.file, db, reply(NoActivities), <<>>, FALSE, "listed")
       ELSE IF \E i \in 1..Len(activities) : ~HasAttr(activities[i], "why")
       THEN Res(reg.state, reg.file, db, <<>>, <<>>, TRUE, "raised")
       ELSE Res(reg.state, reg.file, db,
                reply(Join(<<"\n">>, [i \in 1..Len(activities) |->
                                         format_activity_line(activities[i])])),
                <<>>, FALSE, "listed")

\* handle_delete_command that deletes at once instead of asking
handle_delete_command_at_once(inp, cfg, st, file, db) ==
    LET parsed == IF IsNone(inp.arg) THEN None ELSE ParseNumber(Get(inp.arg))
        reply(text) == <<Msg(inp.chat, text)>>
    IN IF OriginRejected(cfg, inp.chat)
       THEN Res(st, file, db, reply(MismatchNotice), <<>>, FALSE, "wrong_chat")
       ELSE IF IsNone(parsed) \/ Get(parsed) <= 0
       THEN Res(st, file, db, reply(DeleteUsage), <<>>, FALSE, "usage")
       ELSE Res(st, file,
                Db(delete_activity(db.records, Get(parsed)).records, db.next_id),
                reply(DeleteUsage), <<>>, FALSE, "asked")

\* handle_delete_command; arg: None or Some(first argument); io = 1: the
\* store fails
handle_delete_command(inp, cfg, st, file, db) ==
    LET reg == register_if_unset(cfg, st, file, inp.chat)
        parsed == IF IsNone(inp.arg) THEN None ELSE ParseNumber(Get(inp.arg))
        activity_id == Get(parsed)
        fetched == fetch_activity(db.records, activity_id)
        asked == [reg.state EXCEPT !.pending_delete_id = Some(activity_id)]
        reply(text) == <<Msg(inp.chat, text)>>
    IN IF OriginRejected(cfg, inp.chat)
       THEN Res(st, file, db, reply(MismatchNotice), <<>>, FALSE, "wrong_chat")
       ELSE IF IsNone(parsed) \/ activity_id <= 0
       THEN Res(reg.state, reg.file, db, reply(DeleteUsage), <<>>, FALSE, "usage")
       ELSE IF ~TrackHas("fetch_activity") \/ inp.io = 1
       THEN Res(reg.state, reg.file, db, reply(LoadFailed), <<>>, FALSE, "load_failed")
       ELSE IF IsNone(fetched)
       THEN Res(reg.state, reg.file, db, reply(NoActivityWithId(activity_id)),
                <<>>, FALSE, "not_found")
       ELSE IF ~HasAttr(Get(fetched), "why")
       THEN Res(reg.state, reg.file, db, <<>>, <<>>, TRUE, "raised")
       ELSE Res(asked, save_state(asked), db,
                reply(format_delete_prompt(Get(fetched))), <<>>, FALSE, "asked")

--------------------------------------------------------------------------
(* track/track.py: the command-line script, on the same database file *)

\* add_activity of the script: the timestamp is parsed as given, or is the
\* current time; a bad quadrant or timestamp exits before anything is stored
script_add_activity(args, db, clock) ==
    LET activity_ts == parse_activity_timestamp(args[1], clock)
    IN IF args[3] \notin QUADRANTS \/ IsNone(activity_ts) THEN db
       ELSE Db(Append(db.records,
                      Activity(db.next_id, clock, Get(activity_ts),
                               args[2], args[3], args[4], args[5])),
               db.next_id + 1)

--------------------------------------------------------------------------
(* The inputs of the model *)

\* the chats updates come from
Chats == {1, 2}

\* the texts of inbound messages
MsgTexts == {<<" ", "Y", "e", "s">>, <<"N", "o">>, <<"r", "a", "n">>}

\* the first argument of a command: none, a number, zero, not a number
CommandArgs == {None, Some(<<"1">>), Some(<<"0">>), Some(<<"x">>)}

\* the configurations: the chat fixed by TELEGRAM_CHAT_ID or not, with hour 1
\* as the daytime window; and a window that wraps around midnight and leaves
\* hour 1 out
Configs ==
    {[chat_id |-> c, day_start_hour |-> 1, day_end_hour |-> 2] : c \in {None, Some(1)}}
    \cup {[chat_id |-> None, day_start_hour |-> 2, day_end_hour |-> 1]}

\* the state file found at startup: absent, or left by an earlier run
InitFiles ==
    {None,
     save_state(BotState(Some(1), Some(0), Some(1), Some(<<"r", "u", "n">>), None)),
     save_state(BotState(Some(1), None, Some(1), Some(<<"r", "u", "n">>), Some(1)))}

Draft(fields) == JDict(fields)

DraftWalk ==
    Draft([description |-> JStr(<<" ", "w", "a", "l", "k">>),
           duration_minutes |-> JStr(<<"3", "0">>),
           quadrant |-> JNum(2),
           tags |-> JStr(<<"a", ",", " ", "b">>),
           when |-> JStr(<<"N", "o", "w">>)])

DraftMail ==
    Draft([description |-> JStr(<<"m", "a", "i", "l">>),
           duration_minutes |-> JNum(45),
           quadrant |-> JStr(<<"3">>),
           tags |-> JList(<<JStr(<<"w">>)>>),
           when |-> JStr(Lit("1970-01-01 00:45"))])

Answer(kind, payload) == [kind |-> kind, payload |-> payload]

\* the answers of the model: the call fails, a control signal with or
\* without a message, one draft, two drafts, a list with a rejected draft,
\* a bare object, two drafts of which the second has a `when` no format reads
LlmAnswers ==
    <<Answer("error", JNull),
      Answer("json", JDict([error |-> JStr(Lit("notEvents")), message |-> JStr(<<"o", "k">>)])),
      Answer("json", JDict([error |-> JStr(Lit("unclearEvent")), message |-> JStr(<<" ">>)])),
      Answer("json", JList(<<DraftWalk>>)),
      Answer("json", JList(<<DraftMail, DraftWalk>>)),
      Answer("json", JList(<<DraftWalk,
                             Draft([description |-> JStr(<<"t", "v">>),
                                    duration_minutes |-> JNum(5),
                                    quadrant |-> JNum(7)])>>)),
      Answer("json",
             Draft([desc |-> JStr(<<"n", "a", "p">>), duration |-> JNum(5), quadrant |-> JNum(4)])),
      Answer("json", JList(<<DraftWalk,
                             Draft([description |-> JStr(<<"g", "y", "m">>),
                                    duration_minutes |-> JNum(5),
                                    quadrant |-> JNum(1),
                                    when |-> JStr(<<"s", "o", "o", "n">>)])>>))>>

\* the arguments typed at the script: when, duration, quadrant, desc, tags
ScriptAdds ==
    {<<Some(Lit("00:30")), 5, 2, <<"t", "e", "a">>, Some(<<"h">>)>>}

--------------------------------------------------------------------------
(* The state machine *)

NoParse == Raised("none", <<>>)

\* the record of one handler run: its input, the state before it, what it did
Ran(op, chat, message_id, text, arg, parsed, io, res) ==
    [op |-> op, chat |-> chat, message_id |-> message_id, text |-> text,
     arg |-> arg, parsed |-> parsed, io |-> io,
     pre |-> state, pre_file |-> state_file, pre_db |-> Db(ledger, next_id),
     pre_confirmed |-> confirmed,
     replies |-> res.replies, calls |-> res.calls, raised |-> res.raised,
     branch |-> res.branch]

\* the variables after a handler run
Apply(res) ==
    /\ state' = res.state
    /\ state_file' = res.file
    /\ ledger' = res.db.records
    /\ next_id' = res.db.next_id

\* no handler is running: the event loop waits for the next update
Waiting ==
    [op |-> "none", chat |-> 0, message_id |-> 0, text |-> <<>>,
     arg |-> None, parsed |-> NoParse, io |-> 0,
     pre |-> DefaultState, pre_file |-> None, pre_db |-> Db(<<>>, 1),
     pre_confirmed |-> None,
     replies |-> <<>>, calls |-> <<>>, raised |-> FALSE, branch |-> "none"]

Idle == last = Waiting

Init ==
    /\ config \in Configs
    /\ state_file \in InitFiles
    /\ state = load_state(state_file)
    /\ ledger = <<>>
    /\ next_id = 1
    /\ now = 0
    /\ last = Waiting
    /\ thread = IF IsNone(state.pending_checkin) THEN <<>>
                ELSE <<Get(state.pending_checkin)>>
    /\ confirmed = None
    /\ stored = <<>>
    /\ temp_file = None
    /\ task = [at |-> "none"]

\* the run reaches the model call
CallsModel(cfg, st, chat, message_id) ==
    ~OriginRejected(cfg, chat) /\ ~IsRedelivery(st, message_id) /\ ~AwaitingDelete(st)

\* the answers the model can give in a run: index 0 when it is not called
AnswerChoices(cfg, st, chat, message_id) ==
    IF CallsModel(cfg, st, chat, message_id) THEN 1..Len(LlmAnswers) ELSE {0}

NoAnswer == Answer("none", JNull)

AnswerAt(a) == IF a = 0 THEN NoAnswer ELSE LlmAnswers[a]

\* the call that persists a draft gets as far as the store
ReachesStore(activity) ==
    /\ TrackHas("add_activity")
    /\ HasAttr(activity, "why")
    /\ Len(add_arguments(activity)) = Len(add_activity_params)

\* the number of drafts whose persisting gets as far as the store
StoreCalls(activities) ==
    Cardinality({k \in 1..Len(activities) :
                    \A j \in 1..k : ReachesStore(activities[j])})

\* the number of calls a run can come to make that reach the store
LedgerCalls(cfg, st, chat, message_id, text, parsed) ==
    IF OriginRejected(cfg, chat) \/ IsRedelivery(st, message_id) THEN 0
    ELSE IF ~AwaitingDelete(st) THEN StoreCalls(parsed.drafts)
    ELSE IF confirmation_response(text) \in {<<"n">>, <<"n", "o">>} THEN 0
    ELSE IF ~TrackHas("fetch_activity") THEN 0
    ELSE IF confirmation_response(text) \notin {<<"y">>, <<"y", "e", "s">>} THEN 1
    ELSE IF ~TrackHas("delete_activity") THEN 1
    ELSE 2

\* one delivery of an inbound text
Delivery(chat, message_id, text) ==
    [chat |-> chat, message_id |-> message_id, text |-> text]

\* the ends of a run through the delete-confirmation branch
ConfirmationBranches ==
    {"load_failed", "delete_failed", "deleted", "not_found", "cancelled", "reprompt"}

\* an inbound text message
HandleMessage ==
    /\ Idle
    /\ \E chat \in Chats, message_id \in 1..MaxMsgId, text \in MsgTexts :
       \E a \in AnswerChoices(config, state, chat, message_id) :
       \E parsed \in {IF a = 0 THEN NoParse ELSE parse_activities_from_text(AnswerAt(a))} :
       \E io \in 0..LedgerCalls(config, state, chat, message_id, text, parsed) :
       \E res \in {handle_message([chat |-> chat, message_id |-> message_id,
                                    text |-> text, answer |-> AnswerAt(a), io |-> io],
                                   config, state, state_file, Db(ledger, next_id), now)} :
               /\ Len(ledger) <= MaxRecords
               /\ Apply(res)
               /\ last' = Ran("message", chat, message_id, text, None, parsed, io, res)
               /\ thread' = IF IsNone(res.state.pending_checkin) THEN <<>>
                            ELSE IF parsed.tag = "UnclearEventError"
                            THEN Append(thread, text)
                            ELSE thread
               /\ confirmed' = IF res.branch \in ConfirmationBranches
                               THEN Some(Delivery(chat, message_id, text))
                               ELSE confirmed
               /\ stored' = stored \o
                    [k \in 1..(IF Len(res.db.records) > Len(ledger)
                               THEN Len(res.db.records) - Len(ledger) ELSE 0)
                       |-> <<chat, message_id, k, parsed.drafts[k]>>]
               /\ UNCHANGED <<config, now, temp_file, task>>

\* the /start command
HandleStart ==
    /\ Idle
    /\ \E chat \in Chats :
       \E res \in {handle_start([chat |-> chat], config, state, state_file,
                                 Db(ledger, next_id))} :
           /\ Apply(res)
           /\ last' = Ran("start", chat, 0, <<>>, None, NoParse, 0, res)
           /\ UNCHANGED <<config, now, thread, confirmed, stored, temp_file, task>>

\* the /checkin command
HandleCheckinCommand ==
    /\ Idle
    /\ \E chat \in Chats :
       \E res \in {handle_checkin_command([chat |-> chat], config, state, state_file,
                                           Db(ledger, next_id), now)} :
           /\ Apply(res)
           /\ last' = Ran("checkin", chat, 0, <<>>, None, NoParse, 0, res)
           /\ UNCHANGED <<config, now, thread, confirmed, stored, temp_file, task>>

\* the number of calls a /list or /delete run can come to make that reach
\* the store: none when the chat is rejected, the argument is refused or the
\* function is not there to call
CommandLedgerCalls(cfg, chat, name, accepted) ==
    IF OriginRejected(cfg, chat) \/ ~accepted \/ ~TrackHas(name) THEN 0 ELSE 1

\* /list takes no argument or an integer
ListArgAccepted(arg) == IsNone(arg) \/ ~IsNone(ParseNumber(Get(arg)))

\* /delete takes a positive integer
DeleteArgAccepted(arg) ==
    ~IsNone(arg) /\ ~IsNone(ParseNumber(Get(arg))) /\ Get(ParseNumber(Get(arg))) > 0

\* the /list command
HandleListCommand ==
    /\ Idle
    /\ \E chat \in Chats, arg \in CommandArgs :
       \E io \in 0..CommandLedgerCalls(config, chat, "fetch_activities",
                                          ListArgAccepted(arg)) :
       \E res \in {handle_list_command([chat |-> chat, arg |-> arg, io |-> io],
                                        config, state, state_file, Db(ledger, next_id))} :
           /\ Apply(res)
           /\ last' = Ran("list", chat, 0, <<>>, arg, NoParse, io, res)
           /\ UNCHANGED <<config, now, thread, confirmed, stored, temp_file, task>>

\* the /delete command
HandleDeleteCommand ==
    /\ Idle
    /\ \E chat \in Chats, arg \in CommandArgs :
       \E io \in 0..CommandLedgerCalls(config, chat, "fetch_activity",
                                          DeleteArgAccepted(arg)) :
       \E res \in {handle_delete_command([chat |-> chat, arg |-> arg, io |-> io],
                                          config, state, state_file, Db(ledger, next_id))} :
           /\ Apply(res)
           /\ last' = Ran("delete", chat, 0, <<>>, arg, NoParse, io, res)
           /\ UNCHANGED <<config, now, thread, confirmed, stored, temp_file, task>>

\* the hourly job: the clock reaches the next hour and send_checkin runs
SchedulerFires ==
    /\ Idle
    /\ now + 60 <= MaxHour * 60
    /\ now' = now + 60
    /\ \E res \in {send_checkin(config, state, state_file, Db(ledger, next_id),
                                 now', FALSE)} :
          /\ Apply(res)
          /\ last' = Ran("scheduler", 0, 0, <<>>, None, NoParse, 0, res)
    /\ UNCHANGED <<config, thread, confirmed, stored, temp_file, task>>

\* the script adds a record
ScriptAdd ==
    /\ Idle
    /\ \E args \in ScriptAdds :
        LET db == script_add_activity(args, Db(ledger, next_id), now)
        IN /\ next_id <= MaxRecords
           /\ ledger' = db.records
           /\ next_id' = db.next_id
           /\ last' = Ran("script_add", 0, 0, <<>>, None, NoParse, 0,
                          Res(state, state_file, db, <<>>, <<>>, FALSE, "script"))
           /\ UNCHANGED <<config, state, state_file, now, thread, confirmed, stored, temp_file, task>>

\* the handler has returned: the event loop takes the next update
Return ==
    /\ ~Idle
    /\ last' = Waiting
    /\ UNCHANGED <<config, state, state_file, ledger, next_id, now, thread, confirmed, stored,
                   temp_file, task>>

Next ==
    \/ Return
    \/ HandleMessage
    \/ HandleStart
    \/ HandleCheckinCommand
    \/ HandleListCommand
    \/ HandleDeleteCommand
    \/ SchedulerFires
    \/ ScriptAdd

Spec == Init /\ [][Next]_vars

--------------------------------------------------------------------------
(* The functions called on their own: load_state, extract_json,            *)
(* normalize_activity, normalize_activities, add_activity                  *)

\* the calls: every function with the arguments it is tried on.  A call
\* that has not run yet is Call(..); of file, text, payload and args the one
\* the function takes is meaningful.  Object(fields) is the JSON object with
\* the keys whose value is given (Some)
FnCalls ==
    LET Call(fn, file, text, payload, args) ==
            [at |-> "call", fn |-> fn, file |-> file, text |-> text,
             payload |-> payload, args |-> args, result |-> <<>>]
        Object(fields) ==
            JDict([k \in {key \in DOMAIN fields : ~IsNone(fields[key])}
                      |-> Get(fields[k])])
        ints == {None, Some(JNull), Some(JNum(1)), Some(JStr(<<"1">>))}
        stamps == {None, Some(JNull), Some(JStr(<<"6", "0">>)), Some(JStr(<<"x">>)),
                   Some(JNum(60))}
        texts == {None, Some(JNull), Some(JStr(<<"r", "u", "n">>)), Some(JStr(<<" ">>)),
                  Some(JNum(1))}
        files == {None, Some(JInvalid), Some(JNull), Some(JNum(1)), Some(JStr(<<"x">>)),
                  Some(JList(<<>>))}
                 \cup {Some(Object([chat_id |-> c, last_prompt_at |-> p,
                                     last_message_id |-> c, pending_checkin |-> t,
                                     pending_delete_id |-> d])) :
                           c \in ints, p \in stamps, t \in texts, d \in ints}
        alphabet == {"{", "}", "[", "]", "a"}
        strings == UNION {[1..n -> alphabet] : n \in 0..MaxTextLen}
        payloads ==
            {Object([description |-> a, desc |-> b, duration_minutes |-> c,
                     duration |-> d, quadrant |-> q, tags |-> t, when |-> w]) :
                a \in {None, Some(JStr(<<" ", "w", "a", "l", "k", " ">>)), Some(JStr(<<" ">>)),
                       Some(JNum(3))},
                b \in {None, Some(JStr(<<"n", "a", "p">>))},
                c \in {None, Some(JNum(30)), Some(JNum(0)), Some(JNum(0 - 5)),
                       Some(JStr(<<" ", "4", "5">>)), Some(JStr(<<"N", "a", "N">>)),
                       Some(JStr(<<"x">>))},
                d \in {None, Some(JNum(5))},
                q \in {None, Some(JNum(2)), Some(JNum(7)), Some(JStr(<<"3">>)),
                       Some(JStr(<<"x">>)), Some(JNull)},
                t \in {None, Some(JNull), Some(JStr(<<"a", ",", " ", "b", ",", ",">>)),
                       Some(JStr(<<" ", ",">>)), Some(JList(<<>>)), Some(JNum(7)),
                       Some(JList(<<JStr(<<" ", "w", " ">>), JStr(<<" ">>), JNum(1),
                                    JStr(<<"a", ",", "b">>)>>))},
                w \in {None, Some(JStr(<<"N", "o", "w">>)), Some(JStr(<<" ">>)),
                       Some(JNum(1))}}
        signals ==
            {Object([error |-> e, message |-> m, description |-> d,
                     duration |-> Some(JNum(5)), quadrant |-> Some(JNum(4))]) :
                e \in {None, Some(JStr(Lit("notEvents"))), Some(JStr(Lit("unclearEvent"))),
                       Some(JStr(Lit("other"))), Some(JNull)},
                m \in {None, Some(JStr(<<"o", "k">>)), Some(JStr(<<" ">>)), Some(JNum(1))},
                d \in {None, Some(JStr(<<"n", "a", "p">>))}}
        items == {DraftWalk, DraftMail, LlmAnswers[6].payload.l[2], JNum(1)}
        lists == {JList(l) : l \in UNION {[1..n -> items] : n \in 0..2}}
        whens == {None, Some(<<>>), Some(<<"n", "o", "w">>), Some(<<"N", "O", "W">>),
                  Some(<<" ", "N", "o", "w", " ">>), Some(Lit("1970-01-01T00:30:00")),
                  Some(Lit("1970-01-01 00:45")), Some(Lit("1970-01-01")),
                  Some(Lit("00:30")), Some(<<"s", "o", "o", "n">>)}
        none == <<None, 0, 0, <<>>, None>>
    IN {Call("load_state", f, <<>>, JNull, none) : f \in files}
       \cup {Call("extract_json", None, t, JNull, none) : t \in strings}
       \cup {Call("normalize_activity", None, <<>>, x, none) : x \in payloads}
       \cup {Call("normalize_activities", None, <<>>, x, none) :
                 x \in signals \cup lists \cup {JNull, JNum(1), JStr(<<"x">>)}}
       \cup {Call("add_activity", None, <<>>, JNull, <<w, d, q, desc, None>>) :
                 w \in whens, d \in {0, 5, 30}, q \in {2, 7},
                 desc \in {<<>>, <<"t", "e", "a">>}}

InitFn ==
    /\ config \in {c \in Configs : IsNone(c.chat_id) /\ c.day_start_hour = 1}
    /\ state_file = None
    /\ state = load_state(state_file)
    /\ ledger = <<>>
    /\ next_id = 1
    /\ now \in {0, 25 * 60}
    /\ last = Waiting
    /\ thread = <<>>
    /\ confirmed = None
    /\ stored = <<>>
    /\ temp_file = None
    /\ \/ task \in FnCalls
       \/ \E h \in 0..23, start \in 0..23, end \in 0..23 :
             task = [at |-> "call", fn |-> "is_daytime", file |-> None, text |-> <<>>,
                     payload |-> JNull, args |-> <<h, start, end>>, result |-> <<>>]
       \/ \E t \in 0..MaxClock :
             task = [at |-> "call", fn |-> "on_startup", file |-> None, text |-> <<>>,
                     payload |-> JNull, args |-> <<t>>, result |-> <<>>]

\* the call runs and returns (or raises)
Returns(fn, result) ==
    /\ task.at = "call" /\ task.fn = fn
    /\ task' = [task EXCEPT !.at = "returned", !.result = result]

CallLoadState ==
    /\ Returns("load_state", load_state(task.file))
    /\ UNCHANGED <<config, state, state_file, ledger, next_id, now, last, thread,
                   confirmed, stored, temp_file>>

CallExtractJson ==
    /\ Returns("extract_json", extract_json(task.text))
    /\ UNCHANGED <<config, state, state_file, ledger, next_id, now, last, thread,
                   confirmed, stored, temp_file>>

CallNormalizeActivity ==
    /\ Returns("normalize_activity", normalize_activity(task.payload))
    /\ UNCHANGED <<config, state, state_file, ledger, next_id, now, last, thread,
                   confirmed, stored, temp_file>>

CallNormalizeActivities ==
    /\ Returns("normalize_activities", normalize_activities(task.payload))
    /\ UNCHANGED <<config, state, state_file, ledger, next_id, now, last, thread,
                   confirmed, stored, temp_file>>

\* core.add_activity, called with its five arguments
CallAddActivity ==
    /\ \E added \in {add_activity(task.args, Db(ledger, next_id), now, TRUE)} :
          /\ Returns("add_activity", IF added.ok THEN Some(added.ts) ELSE None)
          /\ ledger' = added.db.records
          /\ next_id' = added.db.next_id
    /\ UNCHANGED <<config, state, state_file, now, last, thread, confirmed, stored, temp_file>>

\* is_daytime on a time with this hour
CallIsDaytime ==
    /\ Returns("is_daytime", is_daytime(task.args[1], task.args[2], task.args[3]))
    /\ UNCHANGED <<config, state, state_file, ledger, next_id, now, last, thread,
                   confirmed, stored, temp_file>>

\* on_startup at this time of the clock, in seconds: the job it registers
\* with run_repeating
CallOnStartup ==
    /\ Returns("on_startup", [first |-> seconds_until_next_hour(task.args[1]),
                              interval |-> HOUR_SECONDS])
    /\ UNCHANGED <<config, state, state_file, ledger, next_id, now, last, thread,
                   confirmed, stored, temp_file>>

SpecFn ==
    InitFn /\ [][\/ CallLoadState
                  \/ CallExtractJson
                  \/ CallNormalizeActivity
                  \/ CallNormalizeActivities
                  \/ CallAddActivity
                  \/ CallIsDaytime
                  \/ CallOnStartup]_vars

--------------------------------------------------------------------------
(* save_state followed step by step, with crashes (SpecCrash) *)

\* the path of the state file
StatePath == <<"state", ".json">>

\* path.with_suffix(path.suffix + ".tmp") written to the state file itself
temp_path_same(path) == path

\* path.with_suffix(path.suffix + ".tmp")
temp_path(path) == Append(path, ".tmp")

\* where a handler is: at "none" no handler runs, at "awaiting" it waits for
\* the model, at "open", "write" and "replace" it is inside save_state.
\* inp is its update, prev the state it found, next the state it left in
\* memory, flag a mark of what happened meanwhile
Frame(at, inp, prev, next, flag) ==
    [at |-> at, inp |-> inp, prev |-> prev, next |-> next, flag |-> flag]

NoInput == [chat |-> 0, message_id |-> 0, text |-> <<>>, answer |-> NoAnswer, io |-> 0]

\* the updates with a text, each with an answer the model can give to it
MessageInputs ==
    {[chat |-> chat, message_id |-> message_id, text |-> text,
      answer |-> AnswerAt(a), io |-> 0] :
        chat \in Chats, message_id \in 1..MaxMsgId, text \in MsgTexts,
        a \in 0..Len(LlmAnswers)}

InitSteps ==
    /\ config \in Configs
    /\ state_file \in InitFiles
    /\ state = load_state(state_file)
    /\ ledger = <<>>
    /\ next_id = 1
    /\ now = 0
    /\ last = Waiting
    /\ thread = <<>>
    /\ confirmed = None
    /\ stored = <<>>
    /\ temp_file = None
    /\ task = Frame("none", NoInput, state, state, FALSE)

\* the runs that write the state: /start, send_checkin from the hourly job
\* and as forced by /checkin, and an inbound text
HandlerRuns ==
    {handle_start([chat |-> chat], config, state, state_file, Db(ledger, next_id)) :
        chat \in Chats}
    \cup {send_checkin(config, state, state_file, Db(ledger, next_id), now, force) :
              force \in BOOLEAN}
    \cup {handle_message(inp, config, state, state_file, Db(ledger, next_id), now) :
              inp \in {i \in MessageInputs :
                          (i.answer = NoAnswer)
                              = ~CallsModel(config, state, i.chat, i.message_id)}}

\* path.write_text(content) and the like: the file at this path gets the content
FsWrite(path, content) ==
    /\ state_file' = IF path = StatePath THEN content ELSE state_file
    /\ temp_file' = IF path = StatePath THEN temp_file ELSE content

\* a handler runs up to its call of save_state; a run that leaves the file
\* as it is returns in the same step
HandlerMutates ==
    /\ task.at = "none"
    /\ \E res \in HandlerRuns :
          /\ state' = res.state
          /\ ledger' = res.db.records
          /\ next_id' = res.db.next_id
          /\ task' = IF res.file = state_file
                     THEN Frame("none", NoInput, res.state, res.state, FALSE)
                     ELSE Frame("open", NoInput, state, res.state, FALSE)
    /\ UNCHANGED <<config, state_file, now, last, thread, confirmed, stored, temp_file>>

\* write_text opens the temporary file, which truncates it
SaveOpens ==
    /\ task.at = "open"
    /\ FsWrite(temp_path(StatePath), Some(JInvalid))
    /\ task' = [task EXCEPT !.at = "write"]
    /\ UNCHANGED <<config, state, ledger, next_id, now, last, thread, confirmed, stored>>

\* write_text writes the payload
SaveWrites ==
    /\ task.at = "write"
    /\ FsWrite(temp_path(StatePath), save_state(state))
    /\ task' = [task EXCEPT !.at = "replace"]
    /\ UNCHANGED <<config, state, ledger, next_id, now, last, thread, confirmed, stored>>

\* temp_path.replace(path), and the handler returns
SaveReplaces ==
    /\ task.at = "replace"
    /\ IF temp_path(StatePath) = StatePath
       THEN UNCHANGED <<state_file, temp_file>>
       ELSE state_file' = temp_file /\ temp_file' = None
    /\ task' = Frame("none", NoInput, state, state, FALSE)
    /\ UNCHANGED <<config, state, ledger, next_id, now, last, thread, confirmed, stored>>

\* the process dies inside save_state and is started again: main loads the
\* state file
Crash ==
    /\ task.at # "none"
    /\ state' = load_state(state_file)
    /\ task' = Frame("none", NoInput, task.prev, task.next, TRUE)
    /\ UNCHANGED <<config, state_file, ledger, next_id, now, last, thread, confirmed, stored,
                   temp_file>>

SpecCrash ==
    InitSteps /\ [][\/ HandlerMutates
                     \/ SaveOpens
                     \/ SaveWrites
                     \/ SaveReplaces
                     \/ Crash]_vars

--------------------------------------------------------------------------
(* The model awaited while the hourly job runs (SpecAsync), and a disk that
   refuses the write (SpecDisk) *)

\* handle_message reads the state and suspends at
\* `await asyncio.to_thread(parse_activities_from_text, ...)`
MessageArrives ==
    /\ Idle
    /\ task.at = "none"
    /\ \E inp \in MessageInputs :
          /\ inp.answer # NoAnswer
          /\ CallsModel(config, state, inp.chat, inp.message_id)
          /\ task' = Frame("awaiting", inp, state, state, FALSE)
    /\ UNCHANGED <<config, state, state_file, ledger, next_id, now, last, thread,
                   confirmed, stored, temp_file>>

\* the model call returns and handle_message runs to its end on the state
\* object as it is now; the fields it read before the call (chat_id,
\* last_message_id, pending_delete_id, pending_checkin) are not written by
\* send_checkin
ModelAnswers ==
    /\ Idle
    /\ task.at = "awaiting"
    /\ \E res \in {handle_message(task.inp, config, state, state_file,
                                   Db(ledger, next_id), now)} :
          /\ Apply(res)
          /\ last' = Ran("message", task.inp.chat, task.inp.message_id, task.inp.text,
                         None, parse_activities_from_text(task.inp.answer), 0, res)
    /\ task' = Frame("none", NoInput, task.prev, state', FALSE)
    /\ UNCHANGED <<config, now, thread, confirmed, stored, temp_file>>

\* the event loop runs the job and the handlers as tasks of their own:
\* SchedulerFires does not ask where handle_message is
SpecAsync ==
    InitSteps /\ [][\/ MessageArrives
                     \/ ModelAnswers
                     \/ SchedulerFires
                     \/ Return]_vars

\* the run res of handle_message when write_text in save_state raises
\* OSError: the state is changed in memory, the file is not, the exception
\* leaves the handler, and only the replies sent before the save are out
\* (bot.py 320-322, 325-333)
handle_message_unsaved(res, file) ==
    IF res.file = file THEN res
    ELSE Res(res.state, file, res.db,
             IF res.branch \in {"not_events", "unclear"} THEN res.replies ELSE <<>>,
             res.calls, TRUE, res.branch)

\* an inbound text message while the disk refuses the write
HandleMessageDiskFull ==
    /\ Idle
    /\ \E inp \in MessageInputs :
       \E run \in {handle_message(inp, config, state, state_file,
                                   Db(ledger, next_id), now)} :
       \E res \in {handle_message_unsaved(run, state_file)} :
           /\ (inp.answer = NoAnswer) = ~CallsModel(config, state, inp.chat, inp.message_id)
           /\ res.raised
           /\ Apply(res)
           /\ last' = Ran("message", inp.chat, inp.message_id, inp.text, None,
                          IF inp.answer = NoAnswer THEN NoParse
                          ELSE parse_activities_from_text(inp.answer), 0, res)
    /\ UNCHANGED <<config, now, thread, confirmed, stored, temp_file, task>>

SpecDisk ==
    Init /\ [][\/ Return
                \/ HandleMessage
                \/ HandleStart
                \/ HandleMessageDiskFull]_vars

--------------------------------------------------------------------------
(* The update delivered again after a failure (SpecRetry) *)

\* handle_message returned after a parse or logging failure and the same
\* update comes again: same chat, message id and text; the model is asked
\* again and may answer differently
Redelivery ==
    /\ last.op = "message"
    /\ last.branch \in {"parse_failed", "logging_failed"}
    /\ task.at = "none"
    /\ \E a \in AnswerChoices(config, state, last.chat, last.message_id) :
       \E parsed \in {IF a = 0 THEN NoParse ELSE parse_activities_from_text(AnswerAt(a))} :
       \E io \in 0..LedgerCalls(config, state, last.chat, last.message_id, last.text, parsed) :
       \E inp \in {[chat |-> last.chat, message_id |-> last.message_id,
                     text |-> last.text, answer |-> AnswerAt(a), io |-> io]} :
       \E res \in {handle_message(inp, config, state, state_file, Db(ledger, next_id), now)} :
           /\ Len(ledger) <= MaxRecords
           /\ Apply(res)
           /\ last' = Ran("message", inp.chat, inp.message_id, inp.text, None, parsed, io, res)
           /\ stored' = stored \o
                [k \in 1..(IF Len(res.db.records) > Len(ledger)
                           THEN Len(res.db.records) - Len(ledger) ELSE 0)
                   |-> <<inp.chat, inp.message_id, k, parsed.drafts[k]>>]
           /\ thread' = IF IsNone(res.state.pending_checkin) THEN <<>>
                        ELSE IF parsed.tag = "UnclearEventError"
                        THEN Append(thread, inp.text)
                        ELSE thread
           /\ task' = [at |-> "again",
                       inp |-> Delivery(inp.chat, inp.message_id, inp.text)]
    /\ UNCHANGED <<config, now, confirmed, temp_file>>

SpecRetry ==
    Init /\ [][\/ HandleMessage
                \/ Redelivery
                \/ Return]_vars

--------------------------------------------------------------------------
(* Properties *)

\* the ledger and its id counter, as one value
CurrentDb == Db(ledger, next_id)

\* the run in progress handles an inbound text
MessageRan == last.op = "message"

\* the inbound text came from a chat the configuration admits
FromAdmittedChat == IsNone(config.chat_id) \/ last.chat = Get(config.chat_id)

\* the inbound text carries an id above the recorded one
FreshId ==
    IsNone(last.pre.last_message_id) \/ last.message_id > Get(last.pre.last_message_id)

\* the run sent exactly this text back to the sender
RepliedWith(text) == last.replies = <<Msg(last.chat, text)>>

\* the columns a logged draft fills: duration, quadrant, description, tags
Logged(activity) ==
    [duration_minutes |-> activity.duration_minutes,
     quadrant |-> activity.quadrant,
     description |-> activity.description,
     tags |-> IF IsNone(activity.tags) THEN None
              ELSE Some(Join(<<",">>, Get(activity.tags)))]

\* the same columns of a ledger record
Columns(record) ==
    [duration_minutes |-> record.duration_minutes,
     quadrant |-> record.quadrant,
     description |-> record.description,
     tags |-> record.tags]

\* the ledger is the earlier one followed by the first m drafts, in order
LedgerGrewBy(m) ==
    /\ Len(ledger) = Len(last.pre_db.records) + m
    /\ SubSeq(ledger, 1, Len(last.pre_db.records)) = last.pre_db.records
    /\ \A i \in 1..m :
           Columns(ledger[Len(last.pre_db.records) + i]) = Logged(last.parsed.drafts[i])

\* C1: a text message whose id is not above the recorded last_message_id is
\* ignored: no reply, no model call, the ledger and every field of the
\* conversation state (and the state file) as before.
C1_RedeliveryIgnored ==
    (MessageRan /\ ~FreshId) =>
        /\ last.replies = <<>>
        /\ last.calls = <<>>
        /\ CurrentDb = last.pre_db
        /\ state = last.pre
        /\ state_file = last.pre_file

\* C1 happens: the recorded id itself is delivered again from the admitted chat
C1_Witness ==
    /\ MessageRan /\ FromAdmittedChat
    /\ last.pre.last_message_id = Some(last.message_id)
    /\ IsNone(last.pre.pending_delete_id)

\* C2: when the model's answer normalizes to n >= 1 drafts and the store
\* works, handling the accepted message adds exactly n records, one per
\* draft in draft order, with the draft's duration, quadrant, description
\* and comma-joined tags.
C2_DraftsLogged ==
    (/\ MessageRan /\ FromAdmittedChat /\ FreshId
     /\ last.parsed.tag = "ok" /\ last.io = 0)
        => LedgerGrewBy(Len(last.parsed.drafts))

\* C3: when every draft of an accepted message is persisted (n >= 1 drafts,
\* the store works), pending_checkin and last_prompt_at are cleared,
\* last_message_id is the message's id and the reply is one summary line per
\* draft.
C3_FullSuccess ==
    (/\ MessageRan /\ FromAdmittedChat /\ FreshId
     /\ last.parsed.tag = "ok" /\ last.io = 0)
        => /\ IsNone(state.pending_checkin)
           /\ IsNone(state.last_prompt_at)
           /\ state.last_message_id = Some(last.message_id)
           /\ Len(last.replies) = 1
           /\ Len(Split(last.replies[1].text, "\n")) = Len(last.parsed.drafts)

\* C4: on notEvents the reply is the signal's message, last_message_id
\* becomes the message's id, and every other field of the state and the
\* ledger stay as they were: a pending clarification stays pending.
C4_NotEvents ==
    (MessageRan /\ last.parsed.tag = "NotEventsError") =>
        /\ RepliedWith(last.parsed.msg)
        /\ state = [last.pre EXCEPT !.last_message_id = Some(last.message_id)]
        /\ CurrentDb = last.pre_db

\* C4 happens while a clarification is pending
C4_Witness ==
    /\ MessageRan /\ last.parsed.tag = "NotEventsError"
    /\ ~IsNone(last.pre.pending_checkin)
    /\ state.pending_checkin = last.pre.pending_checkin

\* the pending text of a thread: the original check-in, then each
\* clarification on its own line
ThreadText(texts) == Join(<<"\n", "Clarification: ">>, texts)

C6_ParseFailure ==
    (MessageRan /\ last.parsed.tag \in {"Exception", "ValueError"}) =>
        /\ RepliedWith(ParseFailed)
        /\ state = last.pre
        /\ state_file = last.pre_file
        /\ CurrentDb = last.pre_db
        /\ IsNone(state.last_message_id) \/ last.message_id > Get(state.last_message_id)

\* C6 happens for a rejected payload, with a clarification pending
C6_Witness ==
    /\ MessageRan /\ last.parsed.tag = "ValueError"
    /\ ~IsNone(last.pre.pending_checkin)
    /\ ~IsNone(last.pre.last_message_id)

\* the number of drafts the run added to the ledger
Added == Len(ledger) - Len(last.pre_db.records)

\* C7: if persisting the k-th of n drafts fails, drafts 1..k-1 are in the
\* ledger, drafts k..n are not attempted, the reply is the logging-failure
\* notice and the state and the state file are as before.
C7_PartialLogging ==
    (/\ MessageRan /\ last.parsed.tag = "ok"
     /\ Added < Len(last.parsed.drafts))
        => /\ LedgerGrewBy(Added)
           /\ last.io # 0 => Added < last.io
           /\ RepliedWith(LoggingFailed)
           /\ state = last.pre
           /\ state_file = last.pre_file

\* C7 happens: a draft of a two-draft answer is not persisted
C7_Witness ==
    /\ MessageRan /\ last.parsed.tag = "ok"
    /\ Len(last.parsed.drafts) = 2
    /\ Added < 2
    /\ ~IsNone(last.pre.last_prompt_at)

\* C8: while pending_delete_id is set an accepted text goes to the delete
\* confirmation only, also when pending_checkin is set: no model call, no
\* record added, pending_checkin as before.
C8_DeleteFirst ==
    (MessageRan /\ FromAdmittedChat /\ FreshId /\ ~IsNone(last.pre.pending_delete_id)) =>
        /\ last.calls = <<>>
        /\ Len(ledger) <= Len(last.pre_db.records)
        /\ next_id = last.pre_db.next_id
        /\ state.pending_checkin = last.pre.pending_checkin

\* C8 happens with both pending fields set
C8_Witness ==
    /\ MessageRan /\ FromAdmittedChat /\ FreshId
    /\ ~IsNone(last.pre.pending_delete_id)
    /\ ~IsNone(last.pre.pending_checkin)
    /\ last.replies # <<>>

\* the id a /delete run was given, when its argument is a number
DeleteId == ParseNumber(Get(last.arg))

\* a /delete run with an id k > 0, from an admitted chat, the store working
DeleteRan ==
    /\ last.op = "delete" /\ FromAdmittedChat /\ last.io = 0
    /\ ~IsNone(last.arg) /\ ~IsNone(DeleteId) /\ Get(DeleteId) > 0

\* C9: /delete k with k > 0 sets pending_delete_id = k and asks for
\* confirmation when record k exists; when it is absent it reports
\* not-found and leaves pending_delete_id, pending_checkin and the ledger.
C9_DeleteCommand ==
    DeleteRan =>
        IF WithId(last.pre_db.records, Get(DeleteId)) # {}
        THEN /\ state.pending_delete_id = Some(Get(DeleteId))
             /\ Len(last.replies) = 1
        ELSE /\ RepliedWith(NoActivityWithId(Get(DeleteId)))
             /\ state.pending_delete_id = last.pre.pending_delete_id
             /\ state.pending_checkin = last.pre.pending_checkin
             /\ CurrentDb = last.pre_db

\* C10: pending_delete_id goes from unset to set only in a /delete run that
\* fetched the record and found it; no text message and no scheduler firing
\* sets it.
C10_OnlyDeleteSets ==
    (~Idle /\ IsNone(last.pre.pending_delete_id) /\ ~IsNone(state.pending_delete_id)) =>
        /\ last.op = "delete"
        /\ ~IsNone(last.arg) /\ ~IsNone(DeleteId)
        /\ state.pending_delete_id = DeleteId
        /\ WithId(last.pre_db.records, Get(DeleteId)) # {}

\* C10 happens: a text message reached the model with no delete pending, and
\* none is pending after it
C10_Witness ==
    /\ MessageRan /\ last.calls # <<>>
    /\ last.pre.last_message_id # state.last_message_id
    /\ IsNone(last.pre.pending_delete_id)
    /\ IsNone(state.pending_delete_id)

--------------------------------------------------------------------------
(* Properties of the delete confirmation *)

\* an accepted text arrives while a delete waits for its confirmation
ConfirmationRan ==
    MessageRan /\ FromAdmittedChat /\ FreshId /\ ~IsNone(last.pre.pending_delete_id)

\* the id that waits for its confirmation
PendingId == Get(last.pre.pending_delete_id)

\* the record with that id was in the ledger when the text arrived
PendingRecordPresent == WithId(last.pre_db.records, PendingId) # {}

\* the text, trimmed and lower-cased, is y or yes
SaysYes == Lower(Strip(last.text)) \in {<<"y">>, <<"y", "e", "s">>}

\* the text, trimmed and lower-cased, is n or no
SaysNo == Lower(Strip(last.text)) \in {<<"n">>, <<"n", "o">>}

\* every field of the state but pending_delete_id is as before the run
OtherFieldsKept ==
    [state EXCEPT !.pending_delete_id = None]
        = [last.pre EXCEPT !.pending_delete_id = None]

\* the run sent one message to the sender, and it starts with this text
ReplyStartsWith(prefix) ==
    /\ Len(last.replies) = 1
    /\ last.replies[1].to = last.chat
    /\ Len(last.replies[1].text) >= Len(prefix)
    /\ SubSeq(last.replies[1].text, 1, Len(prefix)) = prefix

\* C11: with pending_delete_id = k and record k in the ledger, the reply y or
\* yes (trimmed, any case) removes record k, clears pending_delete_id and
\* reports the deletion; fetching k afterwards finds nothing.
C11_YesDeletes ==
    (ConfirmationRan /\ SaysYes /\ PendingRecordPresent /\ last.io = 0) =>
        /\ ledger = Without(last.pre_db.records, PendingId)
        /\ IsNone(fetch_activity(ledger, PendingId))
        /\ IsNone(state.pending_delete_id)
        /\ RepliedWith(DeletedEvent(PendingId))

\* C12: with pending_delete_id = k, the reply n or no (trimmed, any case)
\* clears pending_delete_id, saves, reports the cancellation and leaves the
\* ledger as it was, record k included.
C12_NoCancels ==
    (ConfirmationRan /\ SaysNo) =>
        /\ IsNone(state.pending_delete_id)
        /\ OtherFieldsKept
        /\ state_file = save_state(state)
        /\ RepliedWith(DeleteCancelled)
        /\ last.calls = <<>>
        /\ CurrentDb = last.pre_db

\* C12 happens: a delete of a record that is in the ledger is cancelled, and
\* the record is still there
C12_Witness ==
    /\ ConfirmationRan /\ SaysNo /\ PendingRecordPresent
    /\ ~IsNone(fetch_activity(ledger, PendingId))
    /\ IsNone(state.pending_delete_id)

\* C13: with pending_delete_id = k and record k in the ledger, a reply that is
\* none of y, yes, n, no gets the confirmation question again; the state and
\* the ledger stay as they were.
C13_OtherReprompts ==
    (ConfirmationRan /\ ~SaysYes /\ ~SaysNo /\ PendingRecordPresent /\ last.io = 0) =>
        /\ ReplyStartsWith(Lit("Please reply yes or no. ")
                           \o Lit("Are you sure you want to delete event ")
                           \o IntStr(PendingId))
        /\ ~last.raised
        /\ state = last.pre
        /\ CurrentDb = last.pre_db

\* C14: with pending_delete_id = k and no record k in the ledger, every reply
\* clears pending_delete_id and is answered with the not-found report.
C14_GoneReportsNotFound ==
    (ConfirmationRan /\ ~PendingRecordPresent /\ last.io = 0) =>
        /\ IsNone(state.pending_delete_id)
        /\ RepliedWith(EventNotFound(PendingId))

\* a fetch or a delete of the confirmation ended in its except block
LedgerCallFailed ==
    \/ last.io > 0
    \/ last.branch \in {"load_failed", "delete_failed"}
    \/ ~SaysNo /\ ~TrackHas("fetch_activity")

\* C15: when a fetch or delete fails while a confirmation reply is handled,
\* the reply is a generic failure notice, nothing is changed, and
\* pending_delete_id keeps its value: the same reply is handled as a
\* confirmation again.
C15_FailureKeepsPending ==
    (ConfirmationRan /\ LedgerCallFailed) =>
        /\ RepliedWith(LoadFailed) \/ RepliedWith(DeleteFailed)
        /\ state = last.pre
        /\ state_file = last.pre_file
        /\ CurrentDb = last.pre_db
        /\ AwaitingDelete(state) /\ ~IsRedelivery(state, last.message_id)

\* C15 happens: the reply yes meets a failing fetch and the id stays pending
C15_Witness ==
    /\ ConfirmationRan /\ SaysYes /\ LedgerCallFailed
    /\ RepliedWith(LoadFailed)
    /\ state.pending_delete_id = last.pre.pending_delete_id

\* C16: once a reply has been handled as a delete confirmation, a second
\* delivery of the same message (same chat, id and text) does nothing: no
\* reply, no model call, the state, the state file and the ledger as before.
C16_ConfirmationNotRepeated ==
    (MessageRan /\ last.pre_confirmed
                     = Some(Delivery(last.chat, last.message_id, last.text))) =>
        /\ last.replies = <<>>
        /\ last.calls = <<>>
        /\ state = last.pre
        /\ state_file = last.pre_file
        /\ CurrentDb = last.pre_db

--------------------------------------------------------------------------
(* Properties of the state across all handlers *)

\* C17: no run lowers or unsets last_message_id, and a run that writes it
\* stores the id of its message, which is above the value replaced.
C17_LastIdIncreases ==
    (~Idle /\ state.last_message_id # last.pre.last_message_id) =>
        /\ MessageRan
        /\ state.last_message_id = Some(last.message_id)
        /\ IsNone(last.pre.last_message_id)
               \/ last.message_id > Get(last.pre.last_message_id)

\* C17 happens: a message with a higher id replaces a recorded id
C17_Witness ==
    /\ MessageRan
    /\ ~IsNone(last.pre.last_message_id)
    /\ ~IsNone(state.last_message_id)
    /\ Get(state.last_message_id) > Get(last.pre.last_message_id)

\* the destination registered when the run began: the configured chat, or
\* else the chat recorded in the state
RegisteredBefore ==
    IF IntTruthy(config.chat_id) THEN config.chat_id ELSE last.pre.chat_id

\* a text or a command from a chat other than the registered one
ForeignRun ==
    /\ last.op \in {"message", "start", "checkin", "list", "delete"}
    /\ ~IsNone(RegisteredBefore)
    /\ last.chat # Get(RegisteredBefore)

\* C18: once a destination is registered, a text or a command from another
\* chat changes neither the state nor the ledger, calls no model and sends no
\* prompt; the sender gets the mismatch notice at most.
C18_ForeignChatIgnored ==
    ForeignRun =>
        /\ state = last.pre
        /\ state_file = last.pre_file
        /\ CurrentDb = last.pre_db
        /\ last.calls = <<>>
        /\ last.replies \in {<<>>, <<Msg(last.chat, MismatchNotice)>>}

\* C19: state.chat_id changes only from unset to the sender's chat, and only
\* in a /start run.
C19_OnlyStartRegisters ==
    (~Idle /\ state.chat_id # last.pre.chat_id) =>
        /\ last.op = "start"
        /\ IsNone(last.pre.chat_id)
        /\ state.chat_id = Some(last.chat)

--------------------------------------------------------------------------
(* Properties of the scheduler *)

\* the hourly job or the /checkin command (a forced firing) ran send_checkin
FiringRan == last.op \in {"scheduler", "checkin"}

\* the hour of the firing lies in the configured window: start <= hour < end,
\* around midnight when start > end, every hour when start = end
InsideWindow ==
    LET hour == (now % (24 * 60)) \div 60
        start_hour == config.day_start_hour
        end_hour == config.day_end_hour
    IN \/ start_hour = end_hour
       \/ start_hour < end_hour /\ start_hour <= hour /\ hour < end_hour
       \/ start_hour > end_hour /\ (hour >= start_hour \/ hour < end_hour)

\* the destination at the time of the firing
Destination ==
    IF IntTruthy(config.chat_id) THEN config.chat_id ELSE state.chat_id

\* the prompt of the firing, as one message
PromptIn(replies) ==
    {i \in 1..Len(replies) : replies[i].text = CheckinPrompt}

\* C20: an unforced firing outside the window sends nothing and changes
\* nothing; a firing without a destination sends nothing and keeps
\* last_prompt_at (the hourly job keeps the whole state); every other firing
\* sends the prompt once, to the destination, and then records and saves the
\* time of the firing as last_prompt_at.
C20_Firing ==
    FiringRan =>
        IF last.op = "scheduler" /\ ~InsideWindow
        THEN last.replies = <<>> /\ state = last.pre /\ state_file = last.pre_file
        ELSE IF ~IntTruthy(Destination)
        THEN /\ PromptIn(last.replies) = {}
             /\ state.last_prompt_at = last.pre.last_prompt_at
             /\ last.op = "scheduler" => (last.replies = <<>> /\ state = last.pre)
        ELSE /\ PromptIn(last.replies) = {1}
             /\ last.replies[1].to = Get(Destination)
             /\ state.last_prompt_at = Some(now)
             /\ state_file = save_state(state)

\* C20 happens: the hourly job fires outside the window with a destination
\* registered, and sends nothing
C20_Witness ==
    /\ last.op = "scheduler" /\ ~InsideWindow
    /\ IntTruthy(Destination)
    /\ last.replies = <<>>

--------------------------------------------------------------------------
(* Properties of the functions called on their own (SpecFn) *)

\* the call of this function has returned
CallDone(fn) == task.at = "returned" /\ task.fn = fn

\* C23: load_state does not fail; for an absent file and for a file whose
\* content is not a JSON object it returns the defaults, and a field of the
\* wrong type is unset.
C23_LoadNeverFails ==
    CallDone("load_state") =>
        /\ "raised" \notin DOMAIN task.result
        /\ (IsNone(task.file) \/ Get(task.file).t # "dict") => task.result = DefaultState
        /\ (~IsNone(task.file) /\ Get(task.file).t = "dict") =>
               LET raw == Get(task.file)
               IN /\ \A key \in {"chat_id", "last_message_id", "pending_delete_id"} :
                         DictGet(raw, key).t # "num" => IsNone(task.result[key])
                  /\ DictGet(raw, "pending_checkin").t # "str"
                         => IsNone(task.result.pending_checkin)
                  /\ DictGet(raw, "last_prompt_at").t # "str"
                         => IsNone(task.result.last_prompt_at)

\* the message a control signal carries when it is a non-blank string, and
\* the default text otherwise
CarriedMessage(payload, default) ==
    LET message == DictGet(payload, "message")
    IN IF message.t = "str" /\ Strip(message.s) # <<>> THEN message.s ELSE default

\* C25: on a single object, error = notEvents raises NotEventsError and
\* error = unclearEvent raises UnclearEventError, with the object's non-blank
\* message or the default text and without a draft; any other object is
\* normalized as a list of one.
C25_ControlSignals ==
    (CallDone("normalize_activities") /\ task.payload.t = "dict") =>
        LET error == DictGet(task.payload, "error")
            one == normalize_activity(task.payload)
        IN IF error = JStr(Lit("notEvents"))
           THEN task.result = [tag |-> "NotEventsError", drafts |-> <<>>,
                               msg |-> CarriedMessage(task.payload, Lit("Not a check-in."))]
           ELSE IF error = JStr(Lit("unclearEvent"))
           THEN task.result = [tag |-> "UnclearEventError", drafts |-> <<>>,
                               msg |-> CarriedMessage(task.payload, UnclearEventDefault)]
           ELSE IF IsNone(one)
           THEN task.result.tag = "ValueError" /\ task.result.drafts = <<>>
           ELSE task.result.tag = "ok" /\ task.result.drafts = <<Get(one)>>

\* C25 happens: a notEvents signal with a blank message gets the default text
C25_Witness ==
    /\ CallDone("normalize_activities")
    /\ DictGet(task.payload, "error") = JStr(Lit("notEvents"))
    /\ DictGet(task.payload, "message") = JStr(<<" ">>)
    /\ task.result.tag = "NotEventsError"
    /\ task.result.msg = NotEventsDefault

\* the value normalize_activity reads for the description and the duration
GivenDescription == PyOr(DictGet(task.payload, "description"), DictGet(task.payload, "desc"))
GivenDuration ==
    PyOr(DictGet(task.payload, "duration_minutes"), DictGet(task.payload, "duration"))

\* a number, or a string that reads as one
Numeric(v) == v.t = "num" \/ (v.t = "str" /\ ~IsNone(ParseFloat(v.s)))

\* the number it stands for
NumberOf(v) == IF v.t = "num" THEN v.n ELSE Get(ParseFloat(v.s))

\* the tags a draft must carry: the trimmed non-empty items of the list, or
\* of the comma-delimited string, in order; None when there is none
GivenTags ==
    LET tags == DictGet(task.payload, "tags")
        items == IF tags.t = "list" THEN [i \in 1..Len(tags.l) |-> PyStr(tags.l[i])]
                 ELSE Split(PyStr(tags), ",")
        kept == StripNonEmpty(items)
    IN IF tags.t = "null" \/ kept = <<>> THEN None ELSE Some(kept)

\* C26: a returned draft has a trimmed non-empty description, a duration
\* above 0, a quadrant in 1..4 and tags that are absent or the non-empty
\* trimmed items in input order; numeric strings are coerced; a payload with
\* a missing or invalid description, duration or quadrant yields no draft.
C26_DraftsValid ==
    CallDone("normalize_activity") =>
        LET quadrant == DictGet(task.payload, "quadrant")
            valid == /\ GivenDescription.t = "str" /\ Strip(GivenDescription.s) # <<>>
                     /\ Numeric(GivenDuration) /\ NumberOf(GivenDuration) > 0
                     /\ Numeric(quadrant) /\ NumberOf(quadrant) \in {1, 2, 3, 4}
        IN IF ~valid THEN IsNone(task.result)
           ELSE /\ ~IsNone(task.result)
                /\ Get(task.result).description = Strip(GivenDescription.s)
                /\ Get(task.result).duration_minutes = NumberOf(GivenDuration)
                /\ Get(task.result).duration_minutes > 0
                /\ Get(task.result).quadrant = NumberOf(quadrant)
                /\ Get(task.result).tags = GivenTags

\* C27: on a list, normalize_activities returns one draft per element, in
\* order; when an element is not an object or is rejected, or the list is
\* empty, the payload is rejected and no draft is returned.
C27_ListNormalized ==
    (CallDone("normalize_activities") /\ task.payload.t = "list") =>
        LET items == task.payload.l
            accepted(i) == items[i].t = "dict" /\ ~IsNone(normalize_activity(items[i]))
        IN IF items # <<>> /\ \A i \in 1..Len(items) : accepted(i)
           THEN /\ task.result.tag = "ok"
                /\ task.result.drafts
                       = [i \in 1..Len(items) |-> Get(normalize_activity(items[i]))]
           ELSE task.result.tag = "ValueError" /\ task.result.drafts = <<>>

\* C27 happens: a list of two different valid elements gives their two
\* drafts in that order
C27_Witness ==
    /\ CallDone("normalize_activities")
    /\ task.payload = JList(<<DraftMail, DraftWalk>>)
    /\ Len(task.result.drafts) = 2
    /\ task.result.drafts[1].description = <<"m", "a", "i", "l">>
    /\ task.result.drafts[2].description = <<"w", "a", "l", "k">>

\* the indices of the opening braces and brackets of the text
Openers == {i \in 1..Len(task.text) : task.text[i] \in {"{", "["}}

\* the earliest opener
FirstOpener == CHOOSE i \in Openers : \A j \in Openers : i <= j

\* the indices of the closers of the kind of the earliest opener
Closers ==
    {i \in 1..Len(task.text) :
        task.text[i] = (IF task.text[FirstOpener] = "{" THEN "}" ELSE "]")}

\* the last of them
LastCloser == CHOOSE i \in Closers : \A j \in Closers : j <= i

\* C28: extract_json returns the text from the earliest opening brace or
\* bracket to the last closer of the same kind, and fails when there is no
\* opener or no such closer after it.
C28_ExtractSpan ==
    CallDone("extract_json") =>
        IF Openers = {} THEN IsNone(task.result)
        ELSE IF Closers = {} \/ LastCloser <= FirstOpener THEN IsNone(task.result)
        ELSE task.result = Some(SubSeq(task.text, FirstOpener, LastCloser))

\* C28 happens: text before the opener is cut off, and the span runs past
\* an earlier closer of the same kind
C28_Witness ==
    /\ CallDone("extract_json")
    /\ task.text = <<"a", "[", "]", "]">>
    /\ task.result = Some(<<"[", "]", "]">>)

\* a draft written back as the object it describes
DraftPayload(draft) ==
    JDict([description |-> JStr(draft.description),
           duration_minutes |-> JNum(draft.duration_minutes),
           quadrant |-> JNum(draft.quadrant),
           tags |-> IF IsNone(draft.tags) THEN JNull
                    ELSE JList([i \in 1..Len(Get(draft.tags)) |-> JStr(Get(draft.tags)[i])]),
           when |-> IF IsNone(draft.when) THEN JNull ELSE JStr(Get(draft.when))])

GivenWhen == task.args[1]
GivenMinutes == task.args[2]

\* the record add_activity stored, if any
Stored == IF ledger = <<>> THEN None ELSE Some(ledger[Len(ledger)])

\* the outcome add_activity must have for a valid quadrant when the
\* timestamp is this one (None: no format matched)
AddedAt(ts) ==
    IF IsNone(ts) THEN IsNone(task.result) /\ ledger = <<>>
    ELSE /\ task.result = ts
         /\ ~IsNone(Stored)
         /\ Get(Stored).activity_timestamp = Get(ts)

\* the timestamp parsed from `when` does not depend on the duration
SameForAnyDuration ==
    \A d \in {1, 5, 30, 60} :
        resolve_activity_timestamp(GivenWhen, d, now)
            = resolve_activity_timestamp(GivenWhen, GivenMinutes, now)

\* C30, with trimming: the timestamp is now minus the duration when `when` is
\* absent, empty, or 'now' after trimming and ignoring case; otherwise it
\* is the parsed timestamp, whatever the duration; when no format matches,
\* add_activity fails and stores nothing.
C30_ResolveTrimmed ==
    (CallDone("add_activity") /\ task.args[3] \in QUADRANTS) =>
        IF \/ IsNone(GivenWhen) \/ Get(GivenWhen) = <<>>
           \/ Lower(Strip(Get(GivenWhen))) = <<"n", "o", "w">>
        THEN AddedAt(Some(now - GivenMinutes))
        ELSE AddedAt(parse_activity_timestamp(GivenWhen, now)) /\ SameForAnyDuration

\* C30 happens: 'now' in capitals and padded with blanks is taken as now
C30_Witness ==
    /\ CallDone("add_activity")
    /\ GivenWhen = Some(<<" ", "N", "o", "w", " ">>)
    /\ task.result = Some(now - GivenMinutes)
    /\ Len(ledger) = 1

\* C30: the timestamp is now minus the duration when `when` is absent or
\* equals 'now' ignoring case; otherwise it is the parsed timestamp,
\* whatever the duration; when no format matches, add_activity fails and
\* stores nothing.
C30_ResolveExact ==
    (CallDone("add_activity") /\ task.args[3] \in QUADRANTS) =>
        IF \/ IsNone(GivenWhen) \/ Get(GivenWhen) = <<>>
           \/ Lower(Get(GivenWhen)) = <<"n", "o", "w">>
        THEN AddedAt(Some(now - GivenMinutes))
        ELSE AddedAt(parse_activity_timestamp(GivenWhen, now)) /\ SameForAnyDuration

--------------------------------------------------------------------------
(* Properties of the save followed step by step (SpecCrash) *)

\* the state file is absent or holds one complete payload
FileComplete == IsNone(state_file) \/ Get(state_file) = StatePayload(load_state(state_file))

--------------------------------------------------------------------------
(* Properties of the awaited model call (SpecAsync) and of the refused
   write (SpecDisk) *)

\* C21: while handle_message is between its read of the state and its save,
\* waiting for the model, no send_checkin run writes the state.
C21_NoInterleaving ==
    task.at = "awaiting" => ~(last.op = "scheduler" /\ last.branch = "prompted")

\* C24: no failure leaves handle_message as an exception, and every message
\* from an admitted chat with a fresh id is answered.
C24_FailuresAnswered ==
    (MessageRan /\ FromAdmittedChat /\ FreshId) =>
        ~last.raised /\ last.replies # <<>>

--------------------------------------------------------------------------
(* Properties of the ledger and of the time functions *)

\* C31: every record in the ledger has a quadrant in 1..4, a duration above
\* 0 and a non-empty description.
C31_LedgerValid ==
    \A i \in 1..Len(ledger) :
        /\ ledger[i].quadrant \in {1, 2, 3, 4}
        /\ ledger[i].duration_minutes > 0
        /\ ledger[i].description # <<>>

\* C32: is_daytime is true when start and end are equal; when start is
\* below end, exactly for the hours from start up to but not including end;
\* when start is above end, exactly for the hours from start on and those
\* before end.
C32_Daytime ==
    CallDone("is_daytime") =>
        LET h == task.args[1]
            s == task.args[2]
            e == task.args[3]
        IN task.result = (IF s = e THEN TRUE
                          ELSE IF s < e THEN h \in s..(e - 1)
                          ELSE h \in (s..23) \cup (0..(e - 1)))

\* C32 happens: with the window (22, 6), hour 23 is inside
C32_Witness ==
    /\ CallDone("is_daytime")
    /\ task.args = <<23, 22, 6>>
    /\ task.result = TRUE

\* C33: the delay to the first firing is above 0 and at most 3600 seconds,
\* the time it leads to has minute and second zero, and the firings repeat
\* every 3600 seconds.
C33_NextHour ==
    CallDone("on_startup") =>
        LET t == task.args[1]
            first == task.result.first
        IN /\ first > 0
           /\ first <= 3600
           /\ ((t + first) \div 60) % 60 = 0
           /\ (t + first) % 60 = 0
           /\ task.result.interval = 3600

\* C33 happens: started half past the hour, the first firing is 1800 seconds
\* later; started on the hour, a full hour later
C33_Witness ==
    /\ CallDone("on_startup")
    /\ \/ task.args[1] = 5400 /\ task.result.first = 1800
       \/ task.args[1] = 3600 /\ task.result.first = 3600

\* the text the run handed to the model, once
ModelSaw(text) == last.calls = <<llm_text(text, now)>>

Redelivered ==
    /\ task.at = "again"
    /\ task.inp.chat = last.chat
    /\ task.inp.message_id = last.message_id
    /\ task.inp.text = last.text

BotRan == last.op \in {"message", "start", "checkin", "list", "delete", "scheduler"}

\* the run handled a `y` / `yes` reply while pending_delete_id was set
ConfirmedDelete ==
    /\ MessageRan /\ FromAdmittedChat /\ FreshId
    /\ ~IsNone(last.pre.pending_delete_id)
    /\ confirmation_response(last.text) \in {<<"y">>, <<"y", "e", "s">>}

\* C36: the bot removes a ledger record only while it handles a `y` / `yes`
\* reply with pending_delete_id set, and then the record with that id and no
\* other; no other text message, command or firing of the hourly job removes
\* a ledger record or changes one.
C36_OnlyConfirmedDelete ==
    BotRan =>
        \A i \in 1..Len(last.pre_db.records) :
            LET record == last.pre_db.records[i]
            IN /\ \A j \in 1..Len(ledger) : ledger[j].id = record.id => ledger[j] = record
               /\ WithId(ledger, record.id) = {} =>
                     /\ ConfirmedDelete
                     /\ record.id = Get(last.pre.pending_delete_id)

\* C36 happens: with record 1 in the ledger the bot handles a `yes` reply
\* while pending_delete_id is 1, answers it, and no other record is touched
C36_Witness ==
    /\ WithId(last.pre_db.records, 1) # {}
    /\ ConfirmedDelete /\ last.pre.pending_delete_id = Some(1)
    /\ last.replies # <<>>
    /\ C36_OnlyConfirmedDelete

\* C37: an inbound text message that passes the origin check and the
\* message-id check receives exactly one reply, whichever branch handles it;
\* a message that fails either check receives none.
C37_ExactlyOneReply ==
    MessageRan =>
        IF FromAdmittedChat /\ FreshId
        THEN Len(last.replies) = 1 /\ last.replies[1].to = last.chat
        ELSE last.replies = <<>>

====
